---- MODULE Spec2Model ----
(***************************************************************************)
(* A model of the DNS message codec of dns-resolver (src/src/dns.rs).      *)
(*                                                                         *)
(* Bytes are the integers 0..255, a buffer (Vec<u8>, &[u8]) is a sequence  *)
(* of bytes indexed from 1, and a cursor position is the number of bytes   *)
(* before it (0 = start of the buffer), as in std::io::Cursor. A Rust      *)
(* String is represented by the sequence of its UTF-8 bytes.               *)
(***************************************************************************)
EXTENDS Integers, Sequences, FiniteSets, TLC

VARIABLES
    buffer,       \* the bytes being written (pack) or read through the cursor
    pos,          \* cursor.position()
    pc,           \* "idle", "loop" (inside unpack_domain_name's loop), "done"
    parts,        \* unpack_domain_name: the labels collected so far
    jumped,       \* unpack_domain_name: a pointer has been followed
    jump_pos,     \* unpack_domain_name: the position to restore
    initial_pos,  \* unpack_domain_name: the position the call started at
    result,       \* what the last finished call returned
    prev,         \* what the finished call before it returned (same buffer)
    packed,       \* what the last pack_domain_name was given and returned
    heads,        \* history: the distinct positions the loop started an iteration at, in order
    revisited,    \* history: the loop started an iteration at a position it had visited
    iter_pos,     \* history: the position the latest iteration started at
    maxread,      \* history: the end of the furthest read of the call (of unpack_domain_name,
                  \* or of DnsMessage::from_bytes when that is what runs)
    header,       \* the DnsHeader that is packed and asked for its response code
    hres,         \* what the last DnsHeader::from_bytes returned
    rcode,        \* what the last get_response_code returned
    mpc,          \* DnsMessage::from_bytes: "none", where it is, or how it returned ("ok", "err")
    msg,          \* DnsMessage::from_bytes: the header and the sections decoded so far
    rec,          \* ResourceRecord::from_bytes: the fields of the record being decoded
    resolved      \* what resolve returned

vars == <<buffer, pos, pc, parts, jumped, jump_pos, initial_pos, result, prev,
          packed, heads, revisited, iter_pos, maxread, header, hres, rcode, mpc, msg, rec, resolved>>

(***************************************************************************)
(* Bounds of the model.                                                    *)
(***************************************************************************)
\* Every buffer over Alphabet of at most this many bytes is decoded.
MaxBuf == 4
\* Every name over NameAlphabet of at most this many bytes is encoded.
MaxName == 4
\* Structured buffers hold at most this many encoded names.
MaxNames == 3
\* pack_domain_name appends to buffers of at most this many bytes.
MaxPrefix == 1

\* No call that returns collects this many labels from the buffers considered;
\* a call caught in a pointer cycle stops recording labels here.
MaxParts == MaxBuf + MaxName + 2 * MaxNames + MaxPrefix

Min(a, b) == IF a < b THEN a ELSE b

Range(s) == {s[i] : i \in 1..Len(s)}

RECURSIVE Rep(_, _)
Rep(b, n) == IF n = 0 THEN <<>> ELSE <<b>> \o Rep(b, n - 1)

RECURSIVE SeqsUpTo(_, _)
SeqsUpTo(S, n) ==
    IF n = 0 THEN {<<>>}
    ELSE LET shorter == SeqsUpTo(S, n - 1)
         IN  shorter \cup {Append(s, x) : s \in {t \in shorter : Len(t) = n - 1}, x \in S}

(***************************************************************************)
(* std::io::Cursor<&[u8]>::read_exact as the codec uses it: n bytes from   *)
(* position p, or an error when fewer remain. A position past the end      *)
(* leaves nothing to read. A failed read leaves the cursor at the end.     *)
(***************************************************************************)
\* A read that ignores how many bytes it got: the missing ones stay zero
ReadZeroFilled(buf, p, n) ==
    LET from == Min(p, Len(buf))
        got == Min(n, Len(buf) - from)
    IN  [ok |-> TRUE, bytes |-> SubSeq(buf, from + 1, from + got) \o Rep(0, n - got),
         pos |-> p + n]

ReadExact(buf, p, n) ==
    LET from == Min(p, Len(buf))
    IN  IF Len(buf) - from >= n
        THEN [ok |-> TRUE, bytes |-> SubSeq(buf, from + 1, from + n), pos |-> p + n]
        ELSE [ok |-> FALSE, bytes |-> <<>>, pos |-> Len(buf)]

(***************************************************************************)
(* String::from_utf8_lossy(..).to_string(): every maximal invalid UTF-8    *)
(* chunk becomes U+FFFD (EF BF BD); valid text is kept byte for byte.      *)
(***************************************************************************)
Utf8Width(b) ==
    IF b < 128 THEN 1
    ELSE IF b \in 194..223 THEN 2
    ELSE IF b \in 224..239 THEN 3
    ELSE IF b \in 240..244 THEN 4
    ELSE 0

IsCont(b) == b \in 128..191

Utf8SecondOk(b1, b2) ==
    \/ b1 \in 194..223 /\ IsCont(b2)
    \/ b1 = 224 /\ b2 \in 160..191
    \/ b1 \in 225..236 /\ IsCont(b2)
    \/ b1 = 237 /\ b2 \in 128..159
    \/ b1 \in 238..239 /\ IsCont(b2)
    \/ b1 = 240 /\ b2 \in 144..191
    \/ b1 \in 241..243 /\ IsCont(b2)
    \/ b1 = 244 /\ b2 \in 128..143

\* <<number of bytes taken, TRUE when they form a valid character>>
Utf8Chunk(s) ==
    LET w == Utf8Width(s[1])
        At(i) == IF i <= Len(s) THEN s[i] ELSE 0
    IN  IF w = 1 THEN <<1, TRUE>>
        ELSE IF w = 0 THEN <<1, FALSE>>
        ELSE IF ~Utf8SecondOk(s[1], At(2)) THEN <<1, FALSE>>
        ELSE IF w = 2 THEN <<2, TRUE>>
        ELSE IF ~IsCont(At(3)) THEN <<2, FALSE>>
        ELSE IF w = 3 THEN <<3, TRUE>>
        ELSE IF ~IsCont(At(4)) THEN <<3, FALSE>>
        ELSE <<4, TRUE>>

RECURSIVE Utf8Lossy(_)
Utf8Lossy(s) ==
    IF s = <<>> THEN <<>>
    ELSE LET c == Utf8Chunk(s)
             rest == Utf8Lossy(SubSeq(s, c[1] + 1, Len(s)))
         IN  IF c[2] THEN SubSeq(s, 1, c[1]) \o rest
             ELSE <<239, 191, 189>> \o rest

(***************************************************************************)
(* pack_domain_name                                                        *)
(***************************************************************************)
\* The longest label pack_domain_name accepts.
MaxLabelLen == 63

\* '.', the separator of domain.split('.') and parts.join(".")
Dot == 46

\* A split that drops the empty labels
RECURSIVE SplitSkipsEmpty(_)
SplitSkipsEmpty(s) ==
    IF \A i \in 1..Len(s) : s[i] # Dot THEN (IF s = <<>> THEN <<>> ELSE <<s>>)
    ELSE LET i == CHOOSE k \in 1..Len(s) :
                      s[k] = Dot /\ \A j \in 1..(k - 1) : s[j] # Dot
         IN  (IF i = 1 THEN <<>> ELSE <<SubSeq(s, 1, i - 1)>>)
                 \o SplitSkipsEmpty(SubSeq(s, i + 1, Len(s)))

\* domain.split('.'): the labels between the dots; "" has the one label "".
RECURSIVE Split(_)
Split(s) ==
    IF \A i \in 1..Len(s) : s[i] # Dot THEN <<s>>
    ELSE LET i == CHOOSE k \in 1..Len(s) :
                      s[k] = Dot /\ \A j \in 1..(k - 1) : s[j] # Dot
         IN  <<SubSeq(s, 1, i - 1)>> \o Split(SubSeq(s, i + 1, Len(s)))

\* parts.join(".")
RECURSIVE Join(_)
Join(ps) ==
    IF ps = <<>> THEN <<>>
    ELSE IF Len(ps) = 1 THEN ps[1]
    ELSE ps[1] \o <<Dot>> \o Join(Tail(ps))

\* A limit that is one byte off
LabelTooLongOffByOne(label) == Len(label) > MaxLabelLen + 1

\* if len > 63
LabelTooLong(label) == Len(label) > MaxLabelLen

\* The loop without the final buffer.push(0)
RECURSIVE PackLabelsNoTerminator(_, _)
PackLabelsNoTerminator(buf, labels) ==
    IF labels = <<>> THEN [ok |-> TRUE, buffer |-> buf]
    ELSE IF Len(Head(labels)) > 63 THEN [ok |-> FALSE, buffer |-> buf]
    ELSE PackLabelsNoTerminator(buf \o <<Len(Head(labels)) % 256>> \o Head(labels),
                                Tail(labels))

\* The loop over the labels: the first over-long label returns the error and
\* leaves what was appended before it.
RECURSIVE PackLabels(_, _)
PackLabels(buf, labels) ==
    IF labels = <<>> THEN [ok |-> TRUE, buffer |-> Append(buf, 0)]
    ELSE IF LabelTooLong(Head(labels)) THEN [ok |-> FALSE, buffer |-> buf]
    ELSE PackLabels(buf \o <<Len(Head(labels)) % 256>> \o Head(labels), Tail(labels))

\* A pack_domain_name that takes a trailing dot off the name first
PackDomainNameTrimsDot(buf, d) ==
    IF d # <<>> /\ d[Len(d)] = Dot THEN PackLabels(buf, Split(SubSeq(d, 1, Len(d) - 1)))
    ELSE PackLabels(buf, Split(d))

\* pack_domain_name(buffer, domain)
PackDomainName(buf, d) == PackLabels(buf, Split(d))

(***************************************************************************)
(* unpack_domain_name: the tests on the length byte                        *)
(***************************************************************************)
\* (len & 0b1100_0000) == 0b1100_0000
IsPointer(len) == (len \div 64) % 4 = 3

\* (((len & 0x3F) as u16) << 8) | (offset_buf[0] as u16)
PointerOffset(len, lo) == (len % 64) * 256 + lo

\* Every pointer saves its own position
SavedJumpPosOverwritten(jmp, jp, p) == p + 1

\* if !jumped { jump_pos = cursor.position() + 1; }  (p: the position after the first byte)
SavedJumpPos(jmp, jp, p) == IF ~jmp THEN p + 1 ELSE jp

\* The cursor is left where the name ended
RestoredPosNever(jmp, jp, p) == p

\* if jumped { cursor.set_position(jump_pos); }
RestoredPos(jmp, jp, p) == IF jmp THEN jp ELSE p

(***************************************************************************)
(* DnsHeader                                                               *)
(***************************************************************************)
\* u16::to_be_bytes written low byte first
ToLeBytes16(v) == <<v % 256, (v \div 256) % 256>>

\* u16::to_be_bytes
ToBeBytes16(v) == <<(v \div 256) % 256, v % 256>>

\* u16::from_be_bytes
FromBeBytes16(b) == b[1] * 256 + b[2]

\* cursor.read_exact(&mut buf)?; u16::from_be_bytes(buf)
ReadU16(buf, p) ==
    LET r == ReadExact(buf, p, 2)
    IN  [ok |-> r.ok, val |-> IF r.ok THEN FromBeBytes16(r.bytes) ELSE 0, pos |-> r.pos]

\* n such reads one after the other, up to the first that fails
RECURSIVE ReadU16s(_, _, _)
ReadU16s(buf, p, n) ==
    IF n = 0 THEN [ok |-> TRUE, vals |-> <<>>, pos |-> p]
    ELSE LET r == ReadU16(buf, p)
         IN  IF ~r.ok THEN [ok |-> FALSE, vals |-> <<>>, pos |-> r.pos]
             ELSE LET rest == ReadU16s(buf, r.pos, n - 1)
                  IN  [ok |-> rest.ok,
                       vals |-> IF rest.ok THEN <<r.val>> \o rest.vals ELSE <<>>,
                       pos |-> rest.pos]

NoHeader ==
    [id |-> 0, flags |-> 0, question_count |-> 0, answer_count |-> 0,
     authority_count |-> 0, additional_count |-> 0]

\* DnsHeader::pack with the two count fields after question_count exchanged
HeaderPackSwapped(h, buf) ==
    buf \o ToBeBytes16(h.id) \o ToBeBytes16(h.flags)
        \o ToBeBytes16(h.question_count) \o ToBeBytes16(h.authority_count)
        \o ToBeBytes16(h.answer_count) \o ToBeBytes16(h.additional_count)

\* DnsHeader::pack
HeaderPack(h, buf) ==
    buf \o ToBeBytes16(h.id) \o ToBeBytes16(h.flags)
        \o ToBeBytes16(h.question_count) \o ToBeBytes16(h.answer_count)
        \o ToBeBytes16(h.authority_count) \o ToBeBytes16(h.additional_count)

\* DnsHeader::from_bytes
HeaderFromBytes(buf, p) ==
    LET r == ReadU16s(buf, p, 6)
    IN  IF ~r.ok THEN [ok |-> FALSE, header |-> NoHeader, pos |-> r.pos]
        ELSE [ok |-> TRUE,
              header |-> [id |-> r.vals[1], flags |-> r.vals[2],
                          question_count |-> r.vals[3], answer_count |-> r.vals[4],
                          authority_count |-> r.vals[5], additional_count |-> r.vals[6]],
              pos |-> r.pos]

\* get_response_code matching on the low byte
GetResponseCodeLowByte(flags) ==
    LET code == flags % 256
    IN  IF code = 0 THEN "NoError"
        ELSE IF code = 1 THEN "FormatError"
        ELSE IF code = 2 THEN "ServerFailure"
        ELSE IF code = 3 THEN "NameError"
        ELSE IF code = 4 THEN "NotImplemented"
        ELSE IF code = 5 THEN "Refused"
        ELSE "ServerFailure"

\* DnsHeader::get_response_code: match self.flags & 0x000F
GetResponseCode(flags) ==
    LET code == flags % 16
    IN  IF code = 0 THEN "NoError"
        ELSE IF code = 1 THEN "FormatError"
        ELSE IF code = 2 THEN "ServerFailure"
        ELSE IF code = 3 THEN "NameError"
        ELSE IF code = 4 THEN "NotImplemented"
        ELSE IF code = 5 THEN "Refused"
        ELSE "ServerFailure"

(***************************************************************************)
(* QueryType, DnsQuestion, ResourceRecord, DnsMessage                      *)
(***************************************************************************)
\* A try_from with the codes of CNAME and MX exchanged
QueryTypeTryFromSwapped(value) ==
    IF value = 1 THEN [ok |-> TRUE, qtype |-> "A"]
    ELSE IF value = 28 THEN [ok |-> TRUE, qtype |-> "AAAA"]
    ELSE IF value = 15 THEN [ok |-> TRUE, qtype |-> "CNAME"]
    ELSE IF value = 5 THEN [ok |-> TRUE, qtype |-> "MX"]
    ELSE IF value = 16 THEN [ok |-> TRUE, qtype |-> "TXT"]
    ELSE [ok |-> FALSE, qtype |-> "none"]

\* QueryType::try_from(value)
QueryTypeTryFrom(value) ==
    IF value = 1 THEN [ok |-> TRUE, qtype |-> "A"]
    ELSE IF value = 28 THEN [ok |-> TRUE, qtype |-> "AAAA"]
    ELSE IF value = 5 THEN [ok |-> TRUE, qtype |-> "CNAME"]
    ELSE IF value = 15 THEN [ok |-> TRUE, qtype |-> "MX"]
    ELSE IF value = 16 THEN [ok |-> TRUE, qtype |-> "TXT"]
    ELSE [ok |-> FALSE, qtype |-> "none"]

\* cursor.read_exact(&mut u32_buf)?; u32::from_be_bytes(u32_buf). The value
\* is hi * 65536 + lo, kept as its two 16-bit halves <<hi, lo>>.
ReadU32(buf, p) ==
    LET r == ReadExact(buf, p, 4)
    IN  [ok |-> r.ok,
         val |-> IF r.ok
                 THEN <<FromBeBytes16(SubSeq(r.bytes, 1, 2)), FromBeBytes16(SubSeq(r.bytes, 3, 4))>>
                 ELSE <<0, 0>>,
         pos |-> r.pos]

\* A DnsQuestion::from_bytes that takes an unknown type as QueryType::A
QuestionFieldsFallback(buf, p, name) ==
    LET none == [name |-> <<>>, qtype |-> "none", qclass |-> 0]
        t == ReadU16(buf, p)
        q == QueryTypeTryFrom(t.val)
        c == ReadU16(buf, t.pos)
    IN  IF ~t.ok THEN [ok |-> FALSE, question |-> none, pos |-> t.pos]
        ELSE IF ~c.ok THEN [ok |-> FALSE, question |-> none, pos |-> c.pos]
        ELSE [ok |-> TRUE,
              question |-> [name |-> name, qtype |-> IF q.ok THEN q.qtype ELSE "A",
                            qclass |-> c.val],
              pos |-> c.pos]

\* DnsQuestion::from_bytes after the name: the type, checked, then the class
QuestionFields(buf, p, name) ==
    LET none == [name |-> <<>>, qtype |-> "none", qclass |-> 0]
        t == ReadU16(buf, p)
        q == QueryTypeTryFrom(t.val)
        c == ReadU16(buf, t.pos)
    IN  IF ~t.ok THEN [ok |-> FALSE, question |-> none, pos |-> t.pos]
        ELSE IF ~q.ok THEN [ok |-> FALSE, question |-> none, pos |-> t.pos]
        ELSE IF ~c.ok THEN [ok |-> FALSE, question |-> none, pos |-> c.pos]
        ELSE [ok |-> TRUE,
              question |-> [name |-> name, qtype |-> q.qtype, qclass |-> c.val],
              pos |-> c.pos]

NoRecord ==
    [name |-> <<>>, rtype_val |-> 0, rclass |-> 0, ttl |-> <<0, 0>>, data_len |-> 0,
     data_end_pos |-> 0, preference |-> 0, text_data |-> <<>>]

\* Record fields that refuse an RDLENGTH running past the end of the buffer
RecordFieldsChecksLength(buf, p, name) ==
    LET t == ReadU16(buf, p)
        c == ReadU16(buf, t.pos)
        l == ReadU32(buf, c.pos)
        n == ReadU16(buf, l.pos)
    IN  IF ~t.ok THEN [ok |-> FALSE, rec |-> NoRecord, pos |-> t.pos]
        ELSE IF ~c.ok THEN [ok |-> FALSE, rec |-> NoRecord, pos |-> c.pos]
        ELSE IF ~l.ok THEN [ok |-> FALSE, rec |-> NoRecord, pos |-> l.pos]
        ELSE IF ~n.ok \/ n.pos + n.val > Len(buf)
             THEN [ok |-> FALSE, rec |-> NoRecord, pos |-> n.pos]
        ELSE [ok |-> TRUE,
              rec |-> [name |-> name, rtype_val |-> t.val, rclass |-> c.val,
                       ttl |-> l.val, data_len |-> n.val,
                       data_end_pos |-> n.pos + n.val, preference |-> 0,
                       text_data |-> <<>>],
              pos |-> n.pos]

\* ResourceRecord::from_bytes after the name: type, class, TTL, RDLENGTH, and
\* the offset the RDATA ends at
RecordFields(buf, p, name) ==
    LET t == ReadU16(buf, p)
        c == ReadU16(buf, t.pos)
        l == ReadU32(buf, c.pos)
        n == ReadU16(buf, l.pos)
    IN  IF ~t.ok THEN [ok |-> FALSE, rec |-> NoRecord, pos |-> t.pos]
        ELSE IF ~c.ok THEN [ok |-> FALSE, rec |-> NoRecord, pos |-> c.pos]
        ELSE IF ~l.ok THEN [ok |-> FALSE, rec |-> NoRecord, pos |-> l.pos]
        ELSE IF ~n.ok THEN [ok |-> FALSE, rec |-> NoRecord, pos |-> n.pos]
        ELSE [ok |-> TRUE,
              rec |-> [name |-> name, rtype_val |-> t.val, rclass |-> c.val,
                       ttl |-> l.val, data_len |-> n.val,
                       data_end_pos |-> n.pos + n.val, preference |-> 0,
                       text_data |-> <<>>],
              pos |-> n.pos]

\* RData, every variant with the same fields
RData(kind, bytes, name, preference, rtype) ==
    [kind |-> kind, bytes |-> bytes, name |-> name, preference |-> preference,
     rtype |-> rtype]

\* The record returned: rtype.unwrap_or(QueryType::A)
Record(r, data) ==
    [name |-> r.name,
     rtype |-> IF QueryTypeTryFrom(r.rtype_val).ok
               THEN QueryTypeTryFrom(r.rtype_val).qtype ELSE "A",
     rclass |-> r.rclass, ttl |-> r.ttl, data |-> data]

NoMessage ==
    [header |-> NoHeader, questions |-> <<>>, answers |-> <<>>,
     authorities |-> <<>>, additionals |-> <<>>]

\* A from_bytes that fills the authorities before the answers
SectionAuthoritiesFirst(m) ==
    IF Len(m.questions) < m.header.question_count THEN "questions"
    ELSE IF Len(m.authorities) < m.header.authority_count THEN "authorities"
    ELSE IF Len(m.answers) < m.header.answer_count THEN "answers"
    ELSE IF Len(m.additionals) < m.header.additional_count THEN "additionals"
    ELSE "none"

\* The section DnsMessage::from_bytes is filling, "none" when all are full
Section(m) ==
    IF Len(m.questions) < m.header.question_count THEN "questions"
    ELSE IF Len(m.answers) < m.header.answer_count THEN "answers"
    ELSE IF Len(m.authorities) < m.header.authority_count THEN "authorities"
    ELSE IF Len(m.additionals) < m.header.additional_count THEN "additionals"
    ELSE "none"

\* answers.push(..), authorities.push(..) or additionals.push(..)
PushRecord(m, r) ==
    IF Section(m) = "answers" THEN [m EXCEPT !.answers = Append(@, r)]
    ELSE IF Section(m) = "authorities" THEN [m EXCEPT !.authorities = Append(@, r)]
    ELSE [m EXCEPT !.additionals = Append(@, r)]

(***************************************************************************)
(* The inputs                                                              *)
(***************************************************************************)
\* 0: end of name; 1, 2: label lengths and pointer offsets; 64: a length byte
\* with top bits 01; 97: 'a'; 192: 0xC0, a pointer's first byte.
Alphabet == {0, 1, 2, 64, 97, 192}

ShortBuffers == SeqsUpTo(Alphabet, MaxBuf)

\* Buffers made of encoded names, each a label "a" or none, ended by the zero
\* byte or by a pointer to where one of the names so far (itself included)
\* starts. offs: the offsets the names start at.
RECURSIVE NameChains(_)
NameChains(n) ==
    IF n = 0 THEN {[bytes |-> <<>>, offs |-> <<>>]}
    ELSE LET shorter == NameChains(n - 1)
             full == {c \in shorter : Len(c.offs) = n - 1}
             Ext(c, labels, t) ==
                 LET offs == Append(c.offs, Len(c.bytes))
                     tail == IF t = 0 THEN <<0>> ELSE <<192, offs[t]>>
                 IN  [bytes |-> c.bytes \o labels \o tail, offs |-> offs]
         IN  shorter \cup {Ext(c, l, t) : c \in full, l \in {<<>>, <<1, 97>>}, t \in 0..n}

ChainBuffers == {c.bytes : c \in NameChains(MaxNames)}

\* A length byte with top bits 01 and that many bytes behind it
LongBuffers == { <<64>> \o Rep(97, 64) \o <<0>> }

\* The buffers of the tests: "www.google.com"; the same at offset 12 with a
\* pointer to it at offset 32; "f", "example.com" at offset 2, and "f" with a
\* pointer to offset 2 at offset 15
WwwGoogleCom ==
    <<3, 119, 119, 119, 6, 103, 111, 111, 103, 108, 101, 3, 99, 111, 109, 0>>

ExampleCom == <<7, 101, 120, 97, 109, 112, 108, 101, 3, 99, 111, 109, 0>>

TestBuffers ==
    { WwwGoogleCom,
      <<0, 1, 2, 3, 4, 5, 6, 7, 8, 9, 10, 11>> \o WwwGoogleCom
          \o <<222, 173, 190, 239, 192, 12>>,
      <<1, 102>> \o ExampleCom \o <<1, 102, 192, 2>> }

WireBuffers == ShortBuffers \cup ChainBuffers \cup LongBuffers \cup TestBuffers

\* Names with a label of 63 bytes, of 64 bytes, and with a two-byte character.
LongNames ==
    { Rep(97, MaxLabelLen), Rep(97, MaxLabelLen + 1),
      <<97, Dot>> \o Rep(97, MaxLabelLen),
      <<195, 169>>, <<195, 169, Dot, 97>> }

\* Names with a label of 64 bytes behind and before a short one, and with a
\* label of 65 bytes
TooLongNames ==
    { <<97, Dot>> \o Rep(97, MaxLabelLen + 1),
      <<Dot>> \o Rep(97, MaxLabelLen + 1),
      Rep(97, MaxLabelLen + 1) \o <<Dot, 97>>,
      Rep(97, MaxLabelLen + 2) }

\* "www.google.com", the name of the tests
WwwGoogleComName ==
    <<119, 119, 119, Dot, 103, 111, 111, 103, 108, 101, Dot, 99, 111, 109>>

NamesToPack ==
    SeqsUpTo({97, Dot}, MaxName) \cup LongNames \cup TooLongNames \cup {WwwGoogleComName}

NoResult == [op |-> "none", ok |-> FALSE, name |-> <<>>, start |-> 0, end |-> 0]

\* resolve has not returned
NoResolve ==
    [op |-> "none", ok |-> FALSE, error |-> "none", code |-> "none", message |-> NoMessage]

NoHeaderResult ==
    [op |-> "none", ok |-> FALSE, header |-> NoHeader, start |-> 0, end |-> 0, len |-> 0]

(***************************************************************************)
(* The name codec as a state machine                                       *)
(***************************************************************************)
\* Cursor::new(&data[..]) over any of the buffers, before any call
Init ==
    /\ buffer \in WireBuffers
    /\ pos = 0
    /\ pc = "idle"
    /\ parts = <<>>
    /\ jumped = FALSE
    /\ jump_pos = 0
    /\ initial_pos = 0
    /\ result = NoResult
    /\ prev = NoResult
    /\ packed = NoResult
    /\ heads = <<>>
    /\ revisited = FALSE
    /\ iter_pos = 0
    /\ maxread = 0
    /\ header = NoHeader
    /\ hres = NoHeaderResult
    /\ rcode = "none"
    /\ mpc = "none"
    /\ msg = NoMessage
    /\ rec = NoRecord
    /\ resolved = NoResolve

Between == pc \in {"idle", "done"}

\* A pack_domain_name that leaves the buffer as it was when a label is too long
PackNameRollsBack(d) ==
    /\ pc = "idle"
    /\ Len(buffer) <= MaxPrefix
    /\ LET r == PackDomainName(buffer, d)
       IN  /\ buffer' = IF r.ok THEN r.buffer ELSE buffer
           /\ packed' = [op |-> "pack_domain_name", ok |-> r.ok, name |-> d,
                         start |-> Len(buffer),
                         end |-> IF r.ok THEN Len(r.buffer) ELSE Len(buffer)]
    /\ UNCHANGED <<pos, pc, parts, jumped, jump_pos, initial_pos, result, prev,
                   heads, revisited, iter_pos, maxread, header, hres, rcode, mpc, msg, rec, resolved>>

\* pack_domain_name(&mut buffer, d)
PackName(d) ==
    /\ pc = "idle"
    /\ Len(buffer) <= MaxPrefix
    /\ LET r == PackDomainName(buffer, d)
       IN  /\ buffer' = r.buffer
           /\ packed' = [op |-> "pack_domain_name", ok |-> r.ok, name |-> d,
                         start |-> Len(buffer), end |-> Len(r.buffer)]
    /\ UNCHANGED <<pos, pc, parts, jumped, jump_pos, initial_pos, result, prev,
                   heads, revisited, iter_pos, maxread, header, hres, rcode, mpc, msg, rec, resolved>>

\* TRUE when a 2-byte pointer to offset k starts at position p of buf
PointsTo(buf, p, k) ==
    /\ p + 2 <= Len(buf)
    /\ IsPointer(buf[p + 1])
    /\ PointerOffset(buf[p + 1], buf[p + 2]) = k

\* cursor.set_position(p); unpack_domain_name(&mut cursor) up to its loop.
\* prev keeps the result of the call before when this one starts at a pointer
\* to where that one started.
StartUnpack(p) ==
    /\ Between
    /\ pos' = p
    /\ pc' = "loop"
    /\ parts' = <<>>
    /\ jumped' = FALSE
    /\ jump_pos' = 0
    /\ initial_pos' = p
    /\ prev' = IF result.op = "unpack_domain_name" /\ PointsTo(buffer, p, result.start)
               THEN result ELSE NoResult
    /\ result' = NoResult
    /\ heads' = <<>>
    /\ revisited' = FALSE
    /\ iter_pos' = p
    /\ maxread' = 0
    /\ UNCHANGED <<buffer, packed, header, hres, rcode, mpc, msg, rec, resolved>>

\* The history of one loop iteration that starts at pos; r: its last read that
\* returned bytes
Visit(r) ==
    /\ heads' = IF pos \in Range(heads) THEN heads ELSE Append(heads, pos)
    /\ revisited' = (revisited \/ pos \in Range(heads))
    /\ iter_pos' = pos
    /\ maxread' = IF r.ok /\ r.pos > maxread THEN r.pos ELSE maxread

Returned(ok, name, end) ==
    [op |-> "unpack_domain_name", ok |-> ok, name |-> name,
     start |-> initial_pos, end |-> end]

\* cursor.read_exact(&mut len_buf)? fails
UnpackLenFails ==
    /\ pc = "loop"
    /\ LET r == ReadExact(buffer, pos, 1)
       IN  /\ ~r.ok
           /\ pos' = r.pos
           /\ result' = Returned(FALSE, <<>>, r.pos)
           /\ Visit(r)
    /\ pc' = "done"
    /\ UNCHANGED <<buffer, parts, jumped, jump_pos, initial_pos, prev, packed, header, hres, rcode, mpc, msg, rec, resolved>>

\* A pointer step that refuses an offset the loop has been at
UnpackPointerVisitedCheck ==
    /\ pc = "loop"
    /\ LET r == ReadExact(buffer, pos, 1)
       IN  /\ r.ok
           /\ IsPointer(r.bytes[1])
           /\ jump_pos' = SavedJumpPos(jumped, jump_pos, r.pos)
           /\ jumped' = TRUE
           /\ LET r2 == ReadExact(buffer, r.pos, 1)
              IN  IF r2.ok /\ PointerOffset(r.bytes[1], r2.bytes[1]) \notin Range(heads) \cup {pos}
                  THEN /\ pos' = PointerOffset(r.bytes[1], r2.bytes[1])
                       /\ pc' = "loop"
                       /\ result' = result
                       /\ Visit(r2)
                  ELSE /\ pos' = r2.pos
                       /\ pc' = "done"
                       /\ result' = Returned(FALSE, <<>>, r2.pos)
                       /\ Visit(r)
    /\ UNCHANGED <<buffer, parts, initial_pos, prev, packed, header, hres, rcode, mpc, msg, rec, resolved>>

\* The length byte is a pointer: save the restore position, read the second
\* byte, move the cursor to the offset, continue
UnpackPointer ==
    /\ pc = "loop"
    /\ LET r == ReadExact(buffer, pos, 1)
       IN  /\ r.ok
           /\ IsPointer(r.bytes[1])
           /\ jump_pos' = SavedJumpPos(jumped, jump_pos, r.pos)
           /\ jumped' = TRUE
           /\ LET r2 == ReadExact(buffer, r.pos, 1)
              IN  IF r2.ok
                  THEN /\ pos' = PointerOffset(r.bytes[1], r2.bytes[1])
                       /\ pc' = "loop"
                       /\ result' = result
                       /\ Visit(r2)
                  ELSE /\ pos' = r2.pos
                       /\ pc' = "done"
                       /\ result' = Returned(FALSE, <<>>, r2.pos)
                       /\ Visit(r)
    /\ UNCHANGED <<buffer, parts, initial_pos, prev, packed, header, hres, rcode, mpc, msg, rec, resolved>>

\* The length byte is 0: break, restore the cursor after a jump, return the name
UnpackEnd ==
    /\ pc = "loop"
    /\ LET r == ReadExact(buffer, pos, 1)
       IN  /\ r.ok
           /\ ~IsPointer(r.bytes[1])
           /\ r.bytes[1] = 0
           /\ pos' = RestoredPos(jumped, jump_pos, r.pos)
           /\ result' = Returned(TRUE, Join(parts), RestoredPos(jumped, jump_pos, r.pos))
           /\ Visit(r)
    /\ pc' = "done"
    /\ UNCHANGED <<buffer, parts, jumped, jump_pos, initial_pos, prev, packed, header, hres, rcode, mpc, msg, rec, resolved>>

\* The label goes in front of the ones collected
PushLabelFront(ps, bytes) ==
    IF Len(ps) < MaxParts THEN <<Utf8Lossy(bytes)>> \o ps ELSE ps

\* parts.push(String::from_utf8_lossy(&label_buf).to_string())
PushLabel(ps, bytes) ==
    IF Len(ps) < MaxParts THEN Append(ps, Utf8Lossy(bytes)) ELSE ps

\* A label step that leaves the cursor on the length byte
UnpackLabelCursorStays ==
    /\ pc = "loop"
    /\ LET r == ReadExact(buffer, pos, 1)
       IN  /\ r.ok
           /\ ~IsPointer(r.bytes[1])
           /\ r.bytes[1] # 0
           /\ LET r2 == ReadExact(buffer, r.pos, r.bytes[1])
              IN  IF r2.ok
                  THEN /\ parts' = PushLabel(parts, r2.bytes)
                       /\ pos' = pos
                       /\ pc' = "loop"
                       /\ result' = result
                       /\ Visit(r2)
                  ELSE /\ parts' = parts
                       /\ pos' = r2.pos
                       /\ pc' = "done"
                       /\ result' = Returned(FALSE, <<>>, r2.pos)
                       /\ Visit(r)
    /\ UNCHANGED <<buffer, jumped, jump_pos, initial_pos, prev, packed, header, hres, rcode, mpc, msg, rec, resolved>>

\* Any other length byte: read that many bytes as a label
UnpackLabel ==
    /\ pc = "loop"
    /\ LET r == ReadExact(buffer, pos, 1)
       IN  /\ r.ok
           /\ ~IsPointer(r.bytes[1])
           /\ r.bytes[1] # 0
           /\ LET r2 == ReadExact(buffer, r.pos, r.bytes[1])
              IN  IF r2.ok
                  THEN /\ parts' = PushLabel(parts, r2.bytes)
                       /\ pos' = r2.pos
                       /\ pc' = "loop"
                       /\ result' = result
                       /\ Visit(r2)
                  ELSE /\ parts' = parts
                       /\ pos' = r2.pos
                       /\ pc' = "done"
                       /\ result' = Returned(FALSE, <<>>, r2.pos)
                       /\ Visit(r)
    /\ UNCHANGED <<buffer, jumped, jump_pos, initial_pos, prev, packed, header, hres, rcode, mpc, msg, rec, resolved>>

\* One iteration of unpack_domain_name's loop
UnpackStep == UnpackLenFails \/ UnpackPointer \/ UnpackEnd \/ UnpackLabel

Next ==
    \/ \E d \in NamesToPack : PackName(d)
    \/ \E p \in 0..Len(buffer) : StartUnpack(p)
    \/ UnpackLenFails
    \/ UnpackPointer
    \/ UnpackEnd
    \/ UnpackLabel

Spec == Init /\ [][Next]_vars

(***************************************************************************)
(* The header codec as a state machine                                     *)
(***************************************************************************)
\* 16-bit values: both bytes equal, both different, the extremes
U16Samples == {0, 4660, 65535}

CountSamples == {0, 515}

\* Every low nibble under several settings of the other twelve bits, among
\* them 0x8003 and 0x8182
FlagSamples == {hi * 16 + lo : hi \in {0, 16, 2048, 2072, 4095}, lo \in 0..15}

Headers ==
    [id : U16Samples, flags : FlagSamples, question_count : CountSamples,
     answer_count : CountSamples, authority_count : CountSamples,
     additional_count : CountSamples]

\* A header and a buffer, empty or not, to pack it into
HeaderInit ==
    /\ header \in Headers
    /\ buffer \in {<<>>, <<171>>}
    /\ pos = 0
    /\ pc = "idle"
    /\ parts = <<>>
    /\ jumped = FALSE
    /\ jump_pos = 0
    /\ initial_pos = 0
    /\ result = NoResult
    /\ prev = NoResult
    /\ packed = NoResult
    /\ heads = <<>>
    /\ revisited = FALSE
    /\ iter_pos = 0
    /\ maxread = 0
    /\ hres = NoHeaderResult
    /\ rcode = "none"
    /\ mpc = "none"
    /\ msg = NoMessage
    /\ rec = NoRecord
    /\ resolved = NoResolve

\* header.pack(&mut buffer)
PackHeader ==
    /\ packed.op = "none"
    /\ buffer' = HeaderPack(header, buffer)
    /\ packed' = [op |-> "DnsHeader::pack", ok |-> TRUE, name |-> <<>>,
                  start |-> Len(buffer), end |-> Len(HeaderPack(header, buffer))]
    /\ UNCHANGED <<pos, pc, parts, jumped, jump_pos, initial_pos, result, prev,
                   heads, revisited, iter_pos, maxread, header, hres, rcode, mpc, msg, rec, resolved>>

\* cursor.set_position(p); DnsHeader::from_bytes(&mut cursor)
UnpackHeader(p) ==
    /\ LET r == HeaderFromBytes(buffer, p)
       IN  /\ hres' = [op |-> "DnsHeader::from_bytes", ok |-> r.ok, header |-> r.header,
                       start |-> p, end |-> r.pos, len |-> Len(buffer)]
           /\ pos' = r.pos
    /\ UNCHANGED <<buffer, pc, parts, jumped, jump_pos, initial_pos, result, prev,
                   packed, heads, revisited, iter_pos, maxread, header, rcode, mpc, msg, rec, resolved>>

\* header.get_response_code()
ResponseCodeOf ==
    /\ rcode' = GetResponseCode(header.flags)
    /\ UNCHANGED <<buffer, pos, pc, parts, jumped, jump_pos, initial_pos, result, prev,
                   packed, heads, revisited, iter_pos, maxread, header, hres, mpc, msg, rec, resolved>>

HeaderNext ==
    \/ PackHeader
    \/ \E p \in {0, Len(buffer) - 12, Len(buffer) - 11} : p >= 0 /\ UnpackHeader(p)
    \/ ResponseCodeOf

HeaderSpec == HeaderInit /\ [][HeaderNext]_vars

(***************************************************************************)
(* DnsMessage::from_bytes as a state machine. It runs unpack_domain_name's *)
(* loop (the Unpack actions above) for the name of every question, the     *)
(* owner name of every record and the name in a CNAME or MX RDATA.         *)
(***************************************************************************)
\* At most this many records follow the question in a message buffer.
MaxRecords == 1

\* Encoded names: the root, "a", and a pointer to offset 12, where the first
\* name after the header starts
MsgNames == {<<0>>, <<1, 97, 0>>, <<192, 12>>}

\* name, TYPE (1: A, 99: unknown), CLASS 1
MsgQuestions == {n \o <<0, t>> \o <<0, 1>> : n \in MsgNames, t \in {1, 99}}

\* <<TYPE, RDATA>>: A, AAAA, CNAME, MX, TXT ("ab" "cd") and an unknown type
MsgRData ==
    {<<1, <<10, 0, 0, 1>>>>, <<28, Rep(1, 16)>>, <<16, <<2, 97, 98, 2, 99, 100>>>>,
     <<99, <<7, 7>>>>, <<15, <<0, 10, 1, 97, 0>>>>}
        \cup {<<5, n>> : n \in MsgNames}

\* NAME TYPE CLASS TTL RDLENGTH RDATA
MsgRecords ==
    {n \o <<0, d[1]>> \o <<0, 1>> \o <<0, 0, 0, 60>> \o ToBeBytes16(Len(d[2])) \o d[2] :
        n \in {<<0>>, <<192, 12>>}, d \in MsgRData}

RECURSIVE Concat(_)
Concat(ss) == IF ss = <<>> THEN <<>> ELSE Head(ss) \o Concat(Tail(ss))

\* The counts of the header are chosen apart from what follows it
MsgCounts == (0..1) \X (0..MaxRecords) \X (0..1) \X (0..1)

MsgHeader(c) ==
    [id |-> 4660, flags |-> 33152, question_count |-> c[1], answer_count |-> c[2],
     authority_count |-> c[3], additional_count |-> c[4]]

\* The header, the question if any, the records
MsgBytes(c, q, rs) == HeaderPack(MsgHeader(c), <<>>) \o q \o Concat(rs)

\* Messages as a server sends them: the counts are those of what follows the
\* header, the question has a known type, every RDATA is RDLENGTH bytes, every
\* pointer points back to offset 12, where the first name starts
MsgWellFormed(n) ==
    {MsgBytes(x[1], x[2], x[3]) :
        x \in {y \in MsgCounts \X (MsgQuestions \cup {<<>>}) \X SeqsUpTo(MsgRecords, n) :
                  /\ y[1][1] = (IF y[2] = <<>> THEN 0 ELSE 1)
                  /\ y[1][2] + y[1][3] + y[1][4] = Len(y[3])
                  /\ y[2] # <<>> => y[2][Len(y[2]) - 2] = 1
                  /\ LET first == IF y[2] # <<>> THEN y[2]
                                  ELSE IF y[3] # <<>> THEN y[3][1] ELSE <<0>>
                     IN  first[1] # 192}}

WellFormedMessages == MsgWellFormed(MaxRecords)

\* Every proper prefix of a message with at most one record
MsgTruncated ==
    UNION {{SubSeq(m, 1, k) : k \in 0..(Len(m) - 1)} : m \in MsgWellFormed(1)}

\* Bytes behind the last record
MsgTrailers == {<<0>>, <<1, 97>>}

MsgTrailing == {m \o t : m \in MsgWellFormed(1), t \in MsgTrailers}

\* NAME, TYPE t, CLASS 1, TTL 60, RDLENGTH n, RDATA d
MsgRecord(name, t, n, d) ==
    name \o <<0, t>> \o <<0, 1>> \o <<0, 0, 0, 60>> \o ToBeBytes16(n) \o d

\* Records whose RDLENGTH is not what the parser of the type reads: an A
\* record of RDLENGTH 2 and of RDLENGTH 6; a TXT record whose string ends
\* behind the RDATA; a CNAME record of RDLENGTH 5 with the root name; and
\* records that, first after the header, have a pointer to the byte behind
\* them: as CNAME (the record ends at 25), as owner name (it ends at 28)
MsgOddRecords ==
    { MsgRecord(<<0>>, 1, 2, <<10, 0, 0, 1>>),
      MsgRecord(<<0>>, 1, 6, <<10, 0, 0, 1>>),
      MsgRecord(<<0>>, 16, 2, <<2, 97, 98>>),
      MsgRecord(<<0>>, 5, 5, <<0>>),
      MsgRecord(<<0>>, 5, 2, <<192, 25>>),
      MsgRecord(<<192, 28>>, 1, 4, <<10, 0, 0, 1>>) }

\* Records of types the program does not know: 257 (the low byte is that of
\* A) without RDATA, 0 with three bytes, 65535 with the bytes of a name
MsgUnknownRecords ==
    { <<0>> \o <<1, 1>> \o <<0, 1>> \o <<0, 0, 0, 60>> \o <<0, 0>>,
      <<0>> \o <<0, 0>> \o <<0, 1>> \o <<0, 0, 0, 60>> \o <<0, 3>> \o <<192, 12, 255>>,
      <<1, 97, 0>> \o <<255, 255>> \o <<0, 3>> \o <<1, 2, 3, 4>> \o <<0, 3>> \o <<1, 97, 0>> }

\* One such record, with nothing, a name or another record behind it
\* Records of "a", class 3, TTL 0x01020304: A 142.250.187.206; AAAA; CNAME
\* and MX with preference 0x0102, both to the owner name by a pointer, and MX
\* with preference 10 to "b.a"
MsgFieldRecords ==
    {<<1, 97, 0>> \o <<0, d[1]>> \o <<0, 3>> \o <<1, 2, 3, 4>>
         \o ToBeBytes16(Len(d[2])) \o d[2] :
        d \in { <<1, <<142, 250, 187, 206>>>>,
                <<28, <<1, 2, 3, 4, 5, 6, 7, 8, 9, 10, 11, 12, 13, 14, 15, 16>>>>,
                <<5, <<192, 12>>>>,
                <<15, <<1, 2, 192, 12>>>>,
                <<15, <<0, 10, 1, 98, 192, 12>>>> }}

\* TXT records: no string; one string of the byte 0xFF; an empty string and
\* one of a two-byte character; a string cut off by the end of the buffer
\* when nothing follows
MsgTxtRecords ==
    { MsgRecord(<<0>>, 16, 0, <<>>),
      MsgRecord(<<0>>, 16, 2, <<1, 255>>),
      MsgRecord(<<0>>, 16, 4, <<0, 2, 195, 169>>),
      MsgRecord(<<0>>, 16, 3, <<3, 97>>) }

MsgOdd ==
    {MsgBytes(<<0, 1, 0, 0>>, <<>>, <<r>>) \o t :
        r \in MsgOddRecords \cup MsgUnknownRecords \cup MsgFieldRecords \cup MsgTxtRecords,
        t \in {<<>>, <<9, 9>>, <<1, 97, 0>>}}
    \cup {MsgBytes(<<0, 1, 0, 1>>, <<>>, <<r, MsgRecord(<<0>>, 1, 4, <<10, 0, 0, 2>>)>>) :
        r \in MsgOddRecords \cup MsgUnknownRecords \cup MsgFieldRecords \cup MsgTxtRecords}

\* One question, the name "a", of every known type and of unknown ones (257:
\* the low byte is that of A), with the class and without
MsgTypeCodes ==
    {<<0, 1>>, <<0, 28>>, <<0, 5>>, <<0, 15>>, <<0, 16>>,
     <<0, 0>>, <<0, 2>>, <<0, 99>>, <<1, 1>>, <<255, 255>>}

MsgTyped ==
    {MsgBytes(<<1, 0, 0, 0>>, <<1, 97, 0>> \o t \o c, <<>>) :
        t \in MsgTypeCodes, c \in {<<0, 1>>, <<>>}}

\* One record of every type whose RDLENGTH runs past the end of the buffer (an
\* A record of RDLENGTH 6 with 4 bytes, an AAAA record of RDLENGTH 20 with
\* 16, a CNAME and an MX record with the root name and RDLENGTH 5 and 9, a
\* TXT record of RDLENGTH 5 with the string "ab", a record of type 99 of
\* RDLENGTH 3 with 2 bytes), under a header that counts this record, or this
\* one and one more
MsgPastEnd ==
    {MsgBytes(c, <<>>, <<r>>) :
        c \in {<<0, 1, 0, 0>>, <<0, 1, 0, 1>>},
        r \in { MsgRecord(<<0>>, 1, 6, <<10, 0, 0, 1>>),
                MsgRecord(<<0>>, 28, 20, Rep(1, 16)),
                MsgRecord(<<0>>, 5, 5, <<0>>),
                MsgRecord(<<0>>, 15, 9, <<0, 10, 0>>),
                MsgRecord(<<0>>, 16, 5, <<2, 97, 98>>),
                MsgRecord(<<0>>, 99, 3, <<7, 7>>) }}

\* An A or AAAA record whose RDLENGTH is less than the address (0, or 4 for
\* AAAA) and behind it an A record of 16 bytes
MsgShortLength ==
    {MsgBytes(<<0, 1, 0, 1>>, <<>>, <<r, MsgRecord(<<0>>, 1, 5, <<10, 0, 0, 2, 9>>)>>) :
        r \in { MsgRecord(<<0>>, 1, 0, <<>>),
                MsgRecord(<<0>>, 28, 0, <<>>),
                MsgRecord(<<0>>, 28, 4, <<1, 2, 3, 4>>) }}

\* A question and one A record in each of the three record sections, whole
\* and cut inside the authority record
MsgSections ==
    LET m == MsgBytes(<<1, 1, 1, 1>>, <<1, 97, 0, 0, 1, 0, 1>>,
                      << MsgRecord(<<192, 12>>, 1, 4, <<10, 0, 0, 1>>),
                         MsgRecord(<<0>>, 1, 4, <<10, 0, 0, 2>>),
                         MsgRecord(<<192, 12>>, 1, 4, <<10, 0, 0, 3>>) >>)
    IN  {m, SubSeq(m, 1, Len(m) - 20)}

MsgBuffers ==
    {MsgBytes(c, q, rs) :
        c \in MsgCounts, q \in MsgQuestions \cup {<<>>},
        rs \in SeqsUpTo(MsgRecords, MaxRecords)}
        \cup {<<>>, Rep(0, 11)}
        \cup MsgTruncated \cup MsgTrailing \cup MsgOdd \cup MsgTyped \cup MsgSections
        \cup MsgPastEnd \cup MsgShortLength

NameVars ==
    <<parts, jumped, jump_pos, initial_pos, result, prev, heads, revisited,
      iter_pos>>

\* The end of the last of the reads of ws[1], ws[2], .. bytes from p on that
\* succeed, e when the first one fails
RECURSIVE ReadEnd(_, _, _, _)
ReadEnd(buf, p, ws, e) ==
    IF ws = <<>> \/ ~ReadExact(buf, p, Head(ws)).ok THEN e
    ELSE ReadEnd(buf, p + Head(ws), Tail(ws), p + Head(ws))

\* History: the step's reads that succeeded ended at e
Reads(e) == maxread' = IF e > maxread THEN e ELSE maxread

Inputs == <<buffer, packed, header, hres, rcode, resolved>>

MsgInit ==
    /\ buffer \in MsgBuffers
    /\ pos = 0
    /\ pc = "idle"
    /\ parts = <<>>
    /\ jumped = FALSE
    /\ jump_pos = 0
    /\ initial_pos = 0
    /\ result = NoResult
    /\ prev = NoResult
    /\ packed = NoResult
    /\ heads = <<>>
    /\ revisited = FALSE
    /\ iter_pos = 0
    /\ maxread = 0
    /\ header = NoHeader
    /\ hres = NoHeaderResult
    /\ rcode = "none"
    /\ mpc = "none"
    /\ msg = NoMessage
    /\ rec = NoRecord
    /\ resolved = NoResolve

\* unpack_domain_name(cursor) up to its loop, the cursor at p
BeginUnpack(p) ==
    /\ pos' = p
    /\ pc' = "loop"
    /\ parts' = <<>>
    /\ jumped' = FALSE
    /\ jump_pos' = 0
    /\ initial_pos' = p
    /\ prev' = NoResult
    /\ result' = NoResult
    /\ heads' = <<>>
    /\ revisited' = FALSE
    /\ iter_pos' = p

\* A from_bytes that returns what it has decoded when a read fails
FailsWithPartial(p, e) ==
    /\ pos' = p
    /\ Reads(e)
    /\ pc' = "idle"
    /\ mpc' = "ok"
    /\ rec' = NoRecord
    /\ UNCHANGED <<msg, NameVars, Inputs>>

\* A `?` returns the error: from_bytes returns Err and no message
Fails(p, e) ==
    /\ pos' = p
    /\ Reads(e)
    /\ pc' = "idle"
    /\ mpc' = "err"
    /\ msg' = NoMessage
    /\ rec' = NoRecord
    /\ UNCHANGED <<NameVars, Inputs>>

\* A record returned with the cursor where the parser of its type left it
PushesCursorLeft(r, data, e) ==
    /\ pos' = IF e = 0 THEN pos ELSE e
    /\ Reads(e)
    /\ pc' = "idle"
    /\ mpc' = "items"
    /\ msg' = PushRecord(msg, Record(r, data))
    /\ rec' = r
    /\ UNCHANGED <<NameVars, Inputs>>

\* The record is complete: cursor.set_position(data_end_pos), Ok(record),
\* and the push onto the section being filled
Pushes(r, data, e) ==
    /\ pos' = r.data_end_pos
    /\ Reads(e)
    /\ pc' = "idle"
    /\ mpc' = "items"
    /\ msg' = PushRecord(msg, Record(r, data))
    /\ rec' = r
    /\ UNCHANGED <<NameVars, Inputs>>

\* Cursor::new(bytes); DnsHeader::from_bytes(&mut cursor)?
MessageFromBytes ==
    /\ mpc = "none"
    /\ pc = "idle"
    /\ LET h == HeaderFromBytes(buffer, 0)
       IN  IF h.ok
           THEN /\ pos' = h.pos
                /\ mpc' = "items"
                /\ msg' = [NoMessage EXCEPT !.header = h.header]
                /\ Reads(h.pos)
                /\ UNCHANGED <<pc, rec, NameVars, Inputs>>
           ELSE Fails(h.pos, ReadEnd(buffer, 0, <<2, 2, 2, 2, 2, 2>>, 0))

\* for _ in 0..header.question_count: DnsQuestion::from_bytes up to the loop
\* of unpack_domain_name
DecodeQuestion ==
    /\ mpc = "items"
    /\ Section(msg) = "questions"
    /\ BeginUnpack(pos)
    /\ mpc' = "qname"
    /\ UNCHANGED <<msg, rec, maxread, Inputs>>

\* The rest of DnsQuestion::from_bytes, and questions.push(..)
FinishQuestion ==
    /\ mpc = "qname"
    /\ pc = "done"
    /\ LET q == QuestionFields(buffer, pos, result.name)
       IN  IF ~result.ok THEN Fails(pos, 0)
           ELSE IF ~q.ok THEN Fails(q.pos, ReadEnd(buffer, pos, <<2>>, 0))
           ELSE /\ pos' = q.pos
                /\ pc' = "idle"
                /\ mpc' = "items"
                /\ msg' = [msg EXCEPT !.questions = Append(@, q.question)]
                /\ Reads(q.pos)
                /\ UNCHANGED <<rec, NameVars, Inputs>>

\* for _ in 0..header.answer_count (authority_count, additional_count):
\* ResourceRecord::from_bytes up to the loop of unpack_domain_name
DecodeRecord ==
    /\ mpc = "items"
    /\ Section(msg) \in {"answers", "authorities", "additionals"}
    /\ BeginUnpack(pos)
    /\ mpc' = "rname"
    /\ rec' = NoRecord
    /\ UNCHANGED <<msg, maxread, Inputs>>

\* A from_bytes that refuses bytes behind the last record
MessageDoneCursorConsumed ==
    /\ mpc = "items"
    /\ Section(msg) = "none"
    /\ IF pos = Len(buffer)
       THEN /\ mpc' = "ok"
            /\ UNCHANGED <<pos, pc, msg, rec, maxread, NameVars, Inputs>>
       ELSE Fails(pos, 0)

\* Ok(DnsMessage { .. })
MessageDone ==
    /\ mpc = "items"
    /\ Section(msg) = "none"
    /\ mpc' = "ok"
    /\ UNCHANGED <<pos, pc, msg, rec, maxread, NameVars, Inputs>>

\* The owner name has been decoded
AfterOwner == mpc = "rname" /\ pc = "done"

Fields == RecordFields(buffer, pos, result.name)

\* The arm of `match rtype` the record takes
Arm ==
    IF ~result.ok \/ ~Fields.ok THEN "none"
    ELSE IF QueryTypeTryFrom(Fields.rec.rtype_val).ok
         THEN QueryTypeTryFrom(Fields.rec.rtype_val).qtype
         ELSE "Other"

\* The owner name or one of TYPE, CLASS, TTL, RDLENGTH cannot be read
RecordFails ==
    /\ AfterOwner
    /\ Arm = "none"
    /\ IF ~result.ok THEN Fails(pos, 0)
       ELSE Fails(Fields.pos, ReadEnd(buffer, pos, <<2, 2, 4, 2>>, 0))

\* An A arm that reads RDLENGTH bytes, at most 4
RecordAReadsDeclared ==
    /\ AfterOwner
    /\ Arm = "A"
    /\ LET d == ReadExact(buffer, Fields.pos, Min(4, Fields.rec.data_len))
       IN  IF d.ok THEN Pushes(Fields.rec, RData("A", d.bytes, <<>>, 0, 0), d.pos)
           ELSE Fails(d.pos, Fields.pos)

\* Ok(QueryType::A): 4 bytes
RecordA ==
    /\ AfterOwner
    /\ Arm = "A"
    /\ LET d == ReadExact(buffer, Fields.pos, 4)
       IN  IF d.ok THEN Pushes(Fields.rec, RData("A", d.bytes, <<>>, 0, 0), d.pos)
           ELSE Fails(d.pos, Fields.pos)

\* Ok(QueryType::AAAA): 16 bytes
RecordAAAA ==
    /\ AfterOwner
    /\ Arm = "AAAA"
    /\ LET d == ReadExact(buffer, Fields.pos, 16)
       IN  IF d.ok THEN Pushes(Fields.rec, RData("AAAA", d.bytes, <<>>, 0, 0), d.pos)
           ELSE Fails(d.pos, Fields.pos)

\* Ok(QueryType::CNAME): unpack_domain_name up to its loop
RecordCNAME ==
    /\ AfterOwner
    /\ Arm = "CNAME"
    /\ BeginUnpack(Fields.pos)
    /\ mpc' = "rdname"
    /\ rec' = Fields.rec
    /\ Reads(Fields.pos)
    /\ UNCHANGED <<msg, Inputs>>

\* Ok(QueryType::MX): the preference, then unpack_domain_name up to its loop
RecordMX ==
    /\ AfterOwner
    /\ Arm = "MX"
    /\ LET pr == ReadU16(buffer, Fields.pos)
       IN  IF pr.ok
           THEN /\ BeginUnpack(pr.pos)
                /\ mpc' = "rdname"
                /\ rec' = [Fields.rec EXCEPT !.preference = pr.val]
                /\ Reads(pr.pos)
                /\ UNCHANGED <<msg, Inputs>>
           ELSE Fails(pr.pos, Fields.pos)

\* Ok(QueryType::TXT) up to the while loop
RecordTXT ==
    /\ AfterOwner
    /\ Arm = "TXT"
    /\ pos' = Fields.pos
    /\ pc' = "idle"
    /\ mpc' = "txt"
    /\ rec' = Fields.rec
    /\ Reads(Fields.pos)
    /\ UNCHANGED <<msg, NameVars, Inputs>>

\* An arm for the other types that keeps the fallback type, not the code read
RecordOtherFallbackCode ==
    /\ AfterOwner
    /\ Arm = "Other"
    /\ LET d == ReadExact(buffer, Fields.pos, Fields.rec.data_len)
       IN  IF d.ok
           THEN Pushes(Fields.rec, RData("Other", d.bytes, <<>>, 0, 1), d.pos)
           ELSE Fails(d.pos, Fields.pos)

\* Any other type: RDLENGTH bytes
RecordOther ==
    /\ AfterOwner
    /\ Arm = "Other"
    /\ LET d == ReadExact(buffer, Fields.pos, Fields.rec.data_len)
       IN  IF d.ok
           THEN Pushes(Fields.rec, RData("Other", d.bytes, <<>>, 0, Fields.rec.rtype_val), d.pos)
           ELSE Fails(d.pos, Fields.pos)

\* A loop that keeps the last character-string only
TxtStringLastOnly ==
    /\ mpc = "txt"
    /\ pos < rec.data_end_pos
    /\ LET l == ReadExact(buffer, pos, 1)
           str == ReadExact(buffer, l.pos, l.bytes[1])
       IN  IF ~l.ok THEN Fails(l.pos, 0)
           ELSE IF ~str.ok THEN Fails(str.pos, l.pos)
           ELSE /\ pos' = str.pos
                /\ rec' = [rec EXCEPT !.text_data = str.bytes]
                /\ Reads(str.pos)
                /\ UNCHANGED <<pc, mpc, msg, NameVars, Inputs>>

\* while current_pos < data_end_pos: one character-string
TxtString ==
    /\ mpc = "txt"
    /\ pos < rec.data_end_pos
    /\ LET l == ReadExact(buffer, pos, 1)
           str == ReadExact(buffer, l.pos, l.bytes[1])
       IN  IF ~l.ok THEN Fails(l.pos, 0)
           ELSE IF ~str.ok THEN Fails(str.pos, l.pos)
           ELSE /\ pos' = str.pos
                /\ rec' = [rec EXCEPT !.text_data = @ \o str.bytes]
                /\ Reads(str.pos)
                /\ UNCHANGED <<pc, mpc, msg, NameVars, Inputs>>

\* The while loop ends: RData::TXT(String::from_utf8_lossy(&text_data).to_string())
TxtDone ==
    /\ mpc = "txt"
    /\ ~(pos < rec.data_end_pos)
    /\ Pushes(rec, RData("TXT", Utf8Lossy(rec.text_data), <<>>, 0, 0), 0)

\* The name of the CNAME or MX RDATA has been decoded
RDataName ==
    /\ mpc = "rdname"
    /\ pc = "done"
    /\ IF ~result.ok THEN Fails(pos, 0)
       ELSE IF QueryTypeTryFrom(rec.rtype_val).qtype = "CNAME"
            THEN Pushes(rec, RData("CNAME", <<>>, result.name, 0, 0), 0)
            ELSE Pushes(rec, RData("MX", <<>>, result.name, rec.preference, 0), 0)

MsgNext ==
    \/ MessageFromBytes
    \/ DecodeQuestion
    \/ FinishQuestion
    \/ DecodeRecord
    \/ MessageDone
    \/ RecordFails
    \/ RecordA
    \/ RecordAAAA
    \/ RecordCNAME
    \/ RecordMX
    \/ RecordTXT
    \/ RecordOther
    \/ TxtString
    \/ TxtDone
    \/ RDataName
    \/ UnpackLenFails
    \/ UnpackPointer
    \/ UnpackEnd
    \/ UnpackLabel

MsgSpec == MsgInit /\ [][MsgNext]_vars

(***************************************************************************)
(* The two decode loops together: unpack_domain_name called on its own on  *)
(* any buffer and position, and called by DnsMessage::from_bytes, whose    *)
(* TXT arm has the other loop.                                             *)
(***************************************************************************)
LoopInit == Init \/ MsgInit

\* The buffer is one of the messages from_bytes is called on
IsMessage == buffer \in MsgBuffers

LoopNext ==
    \/ (~IsMessage /\ Next)
    \/ (IsMessage /\ MsgNext)

LoopSpec == LoopInit /\ [][LoopNext]_vars

(***************************************************************************)
(* DnsQuestion::pack and DnsMessage::pack                                  *)
(***************************************************************************)
\* self.qtype as u16
QueryTypeCode(qtype) ==
    CASE qtype = "A" -> 1
      [] qtype = "AAAA" -> 28
      [] qtype = "CNAME" -> 5
      [] qtype = "MX" -> 15
      [] qtype = "TXT" -> 16

\* A pack that writes the class before the type
QuestionPackClassFirst(q, buf) ==
    LET r == PackDomainName(buf, q.name)
    IN  IF ~r.ok THEN r
        ELSE [ok |-> TRUE,
              buffer |-> r.buffer \o ToBeBytes16(q.qclass)
                             \o ToBeBytes16(QueryTypeCode(q.qtype))]

\* DnsQuestion::pack
QuestionPack(q, buf) ==
    LET r == PackDomainName(buf, q.name)
    IN  IF ~r.ok THEN r
        ELSE [ok |-> TRUE,
              buffer |-> r.buffer \o ToBeBytes16(QueryTypeCode(q.qtype))
                             \o ToBeBytes16(q.qclass)]

\* for question in &self.questions { question.pack(buffer)?; }
RECURSIVE QuestionsPack(_, _)
QuestionsPack(qs, buf) ==
    IF qs = <<>> THEN [ok |-> TRUE, buffer |-> buf]
    ELSE LET r == QuestionPack(Head(qs), buf)
         IN  IF ~r.ok THEN r ELSE QuestionsPack(Tail(qs), r.buffer)

\* A pack that writes the lengths of the lists as the counts of the header
MessagePackCountsOfLists(m, buf) ==
    QuestionsPack(m.questions,
                  HeaderPack([m.header EXCEPT !.question_count = Len(m.questions),
                                              !.answer_count = Len(m.answers),
                                              !.authority_count = Len(m.authorities),
                                              !.additional_count = Len(m.additionals)],
                             buf))

\* DnsMessage::pack
MessagePack(m, buf) == QuestionsPack(m.questions, HeaderPack(m.header, buf))

\* The questions packed: every name of NamesToPack with two types and two
\* classes, and the name "aa" with every type
QuestionsToPack ==
    [name : NamesToPack, qtype : {"A", "MX"}, qclass : {1, 515}]
        \cup [name : {<<97, 97>>}, qtype : {"A", "AAAA", "CNAME", "MX", "TXT"},
              qclass : {1, 515}]

\* The questions of the messages packed: "a", "a.aa", and a name whose second
\* label has 64 bytes
MessageQuestions ==
    { [name |-> <<97>>, qtype |-> "A", qclass |-> 1],
      [name |-> <<97, Dot, 97, 97>>, qtype |-> "MX", qclass |-> 515],
      [name |-> <<97, Dot>> \o Rep(97, MaxLabelLen + 1), qtype |-> "TXT", qclass |-> 1] }

\* An A record as from_bytes returns it
RecordToPack ==
    [name |-> <<97>>, rtype |-> "A", rclass |-> 1, ttl |-> <<0, 60>>,
     data |-> RData("A", <<10, 0, 0, 1>>, <<>>, 0, 0)]

\* The messages packed: the counts of the header are chosen apart from the
\* lists, and the three record lists are empty or hold a record
MessagesToPack ==
    [header : {[id |-> 1234, flags |-> 256, question_count |-> c[1],
                answer_count |-> c[2], authority_count |-> 0,
                additional_count |-> 0] : c \in (0..2) \X (0..1)},
     questions : SeqsUpTo(MessageQuestions, 2),
     answers : {<<>>, <<RecordToPack>>},
     authorities : {<<>>, <<RecordToPack>>},
     additionals : {<<>>, <<RecordToPack, RecordToPack>>}]

\* A buffer, empty or not, and a header to pack
PackInit ==
    /\ HeaderInit
    /\ header.id = 4660
    /\ header.flags = 256
    /\ header.authority_count = 0
    /\ header.additional_count = 0

\* question.pack(&mut buffer)
PackQuestion(q) ==
    /\ pc = "idle"
    /\ mpc = "none"
    /\ Len(buffer) <= MaxPrefix
    /\ LET r == QuestionPack(q, buffer)
       IN  /\ buffer' = r.buffer
           /\ packed' = [op |-> "DnsQuestion::pack", ok |-> r.ok, name |-> q.name,
                         start |-> Len(buffer), end |-> Len(r.buffer),
                         question |-> q]
    /\ UNCHANGED <<pos, pc, parts, jumped, jump_pos, initial_pos, result, prev,
                   heads, revisited, iter_pos, maxread, header, hres, rcode, mpc,
                   msg, rec, resolved>>

\* message.pack(&mut buffer)
PackMessage(m) ==
    /\ pc = "idle"
    /\ mpc = "none"
    /\ Len(buffer) <= MaxPrefix
    /\ LET r == MessagePack(m, buffer)
       IN  /\ buffer' = r.buffer
           /\ packed' = [op |-> "DnsMessage::pack", ok |-> r.ok, name |-> <<>>,
                         start |-> Len(buffer), end |-> Len(r.buffer),
                         message |-> m]
    /\ UNCHANGED <<pos, pc, parts, jumped, jump_pos, initial_pos, result, prev,
                   heads, revisited, iter_pos, maxread, header, hres, rcode, mpc,
                   msg, rec, resolved>>

\* cursor.set_position(p); DnsQuestion::from_bytes(&mut cursor) up to the
\* loop of unpack_domain_name, at the start of a packed question or one byte
\* behind it
QuestionFromBytes(p) ==
    /\ pc = "idle"
    /\ mpc = "none"
    /\ packed.op = "DnsQuestion::pack"
    /\ packed.ok
    /\ BeginUnpack(p)
    /\ mpc' = "qname"
    /\ UNCHANGED <<msg, rec, maxread, Inputs>>

\* The rest of DnsQuestion::from_bytes: Ok(DnsQuestion { name, qtype, qclass })
\* or the error of the name, the type or the class
QuestionDone ==
    /\ mpc = "qname"
    /\ pc = "done"
    /\ LET q == QuestionFields(buffer, pos, result.name)
           done == result.ok /\ q.ok
       IN  /\ pos' = IF result.ok THEN q.pos ELSE pos
           /\ mpc' = IF done THEN "ok" ELSE "err"
           /\ result' = [op |-> "DnsQuestion::from_bytes", ok |-> done,
                         name |-> IF done THEN q.question.name ELSE <<>>,
                         start |-> result.start,
                         end |-> IF result.ok THEN q.pos ELSE pos,
                         question |-> IF done THEN q.question
                                      ELSE [name |-> <<>>, qtype |-> "none", qclass |-> 0]]
    /\ pc' = "idle"
    /\ UNCHANGED <<parts, jumped, jump_pos, initial_pos, prev, heads, revisited,
                   iter_pos, maxread, msg, rec, Inputs>>

PackNext ==
    \/ \E d \in NamesToPack : PackName(d)
    \/ PackHeader
    \/ \E q \in QuestionsToPack : PackQuestion(q)
    \/ \E m \in MessagesToPack : PackMessage(m)
    \/ \E p \in {packed.start, packed.start + 1} : QuestionFromBytes(p)
    \/ QuestionDone
    \/ UnpackLenFails
    \/ UnpackPointer
    \/ UnpackEnd
    \/ UnpackLabel

PackSpec == PackInit /\ [][PackNext]_vars

(***************************************************************************)
(* resolve: the query it sends is kept in packed; the bytes it receives are *)
(* the buffer, which DnsMessage::from_bytes decodes with the steps above.   *)
(***************************************************************************)
\* Flags of responses: every response code 0..6 and 15 with the QR bit set,
\* and the flags of the query itself (0x0100: the QR bit clear)
ResolveFlags == {33152 + c : c \in {0, 1, 2, 3, 4, 5, 6, 15}} \cup {256}

\* The message b with the flags f
WithFlags(b, f) == SubSeq(b, 1, 2) \o ToBeBytes16(f) \o SubSeq(b, 5, Len(b))

\* What recv_from leaves in response_buffer[..size]
\* The response to the query for "a" of type A: the id 1234 and the question
\* of the query, and an answer
ResolveEcho ==
    HeaderPack([id |-> 1234, flags |-> 33152, question_count |-> 1,
                answer_count |-> 1, authority_count |-> 0, additional_count |-> 0],
               <<>>)
        \o <<1, 97, 0, 0, 1, 0, 1>> \o MsgRecord(<<192, 12>>, 1, 4, <<10, 0, 0, 1>>)

\* What recv_from leaves in response_buffer[..size]: whole messages with
\* every flags value, cut ones with response code 0 and 3, and the odd ones
ResolveBuffers ==
    {WithFlags(b, f) : b \in MsgWellFormed(1), f \in ResolveFlags}
        \cup MsgTruncated \cup MsgOdd \cup {ResolveEcho}
        \cup {WithFlags(b, 33155) : b \in {t \in MsgTruncated : Len(t) >= 12}}

ResolveInit ==
    /\ buffer \in ResolveBuffers
    /\ pos = 0
    /\ pc = "idle"
    /\ parts = <<>>
    /\ jumped = FALSE
    /\ jump_pos = 0
    /\ initial_pos = 0
    /\ result = NoResult
    /\ prev = NoResult
    /\ packed = NoResult
    /\ heads = <<>>
    /\ revisited = FALSE
    /\ iter_pos = 0
    /\ maxread = 0
    /\ header = NoHeader
    /\ hres = NoHeaderResult
    /\ rcode = "none"
    /\ mpc = "none"
    /\ msg = NoMessage
    /\ rec = NoRecord
    /\ resolved = NoResolve

\* Err(e)
ResolveErr(e, code) ==
    [op |-> "resolve", ok |-> FALSE, error |-> e, code |-> code, message |-> NoMessage]

\* A query without the recursion-desired flag
ResolveMessageNoFlags(domain_name, query_type) ==
    [NoMessage EXCEPT
        !.header = [NoHeader EXCEPT !.id = 1234, !.question_count = 1],
        !.questions = <<[name |-> domain_name, qtype |-> query_type, qclass |-> 1]>>]

\* DnsMessage::new() with header.id = 1234, header.flags = 0x0100,
\* header.question_count = 1 and the one question pushed
ResolveMessage(domain_name, query_type) ==
    [NoMessage EXCEPT
        !.header = [NoHeader EXCEPT !.id = 1234, !.flags = 256, !.question_count = 1],
        !.questions = <<[name |-> domain_name, qtype |-> query_type, qclass |-> 1]>>]

\* The names resolve is called with: "a", "aa", and a name whose second label
\* has 64 bytes
ResolveNames == {<<97>>, <<97, 97>>, <<97, Dot>> \o Rep(97, MaxLabelLen + 1)}

\* message.pack(&mut query_buffer) and socket.send_to(&query_buffer, ..): the
\* query sent is kept; a pack that fails ends resolve with InvalidResponse
ResolveSends(domain_name, query_type) ==
    /\ resolved.op = "none"
    /\ packed.op = "none"
    /\ mpc = "none"
    /\ LET m == ResolveMessage(domain_name, query_type)
           r == MessagePack(m, <<>>)
       IN  /\ packed' = [op |-> "resolve", ok |-> r.ok, name |-> domain_name,
                         start |-> 0, end |-> Len(r.buffer), message |-> m,
                         bytes |-> r.buffer]
           /\ resolved' = IF r.ok THEN resolved
                          ELSE ResolveErr("InvalidResponse", "none")
    /\ UNCHANGED <<buffer, pos, pc, header, hres, rcode, mpc, msg, rec, maxread,
                   NameVars>>

\* resolve returns before it has a response: bind, set_read_timeout and
\* send_to fail with Io, recv_from with Timeout or Io
ResolveFails(e) ==
    /\ mpc = "none"
    /\ resolved.op = "none"
    /\ resolved' = ResolveErr(e, "none")
    /\ UNCHANGED <<buffer, pos, pc, packed, header, hres, rcode, mpc, msg, rec, maxread,
                   NameVars>>

\* A resolve that returns the message whatever its response code
ResolveReturnsAnyCode ==
    /\ mpc \in {"ok", "err"}
    /\ resolved.op = "none"
    /\ IF mpc = "err"
       THEN /\ resolved' = ResolveErr("InvalidResponse", "none")
            /\ rcode' = rcode
       ELSE /\ rcode' = rcode
            /\ resolved' = [op |-> "resolve", ok |-> TRUE, error |-> "none",
                            code |-> "none", message |-> msg]
    /\ UNCHANGED <<buffer, pos, pc, packed, header, hres, mpc, msg, rec, maxread, NameVars>>

\* from_bytes has returned: its error as InvalidResponse; a response code
\* other than NoError as ServerReturnedError(code); else Ok(response_message)
ResolveReturns ==
    /\ mpc \in {"ok", "err"}
    /\ resolved.op = "none"
    /\ IF mpc = "err"
       THEN /\ resolved' = ResolveErr("InvalidResponse", "none")
            /\ rcode' = rcode
       ELSE LET code == GetResponseCode(msg.header.flags)
            IN  /\ rcode' = code
                /\ resolved' = IF code # "NoError"
                               THEN ResolveErr("ServerReturnedError", code)
                               ELSE [op |-> "resolve", ok |-> TRUE, error |-> "none",
                                     code |-> "none", message |-> msg]
    /\ UNCHANGED <<buffer, pos, pc, packed, header, hres, mpc, msg, rec, maxread, NameVars>>

\* resolve is running: it has not returned
Resolving == resolved.op = "none"

\* The query has been sent
Sent == packed.op = "resolve" /\ packed.ok

ResolveNext ==
    \/ \E e \in {"Io", "Timeout"} : ResolveFails(e)
    \/ \E d \in ResolveNames, t \in {"A", "MX"} : ResolveSends(d, t)
    \/ ResolveReturns
    \/ (Resolving /\ Sent /\ MsgNext)

ResolveSpec == ResolveInit /\ [][ResolveNext]_vars

(***************************************************************************)
(* Properties of the name codec                                            *)
(***************************************************************************)
Finished == pc = "done" /\ result.op = "unpack_domain_name"

\* The call decoded, from offset 0, a name packed into an empty buffer
DecodedPacked ==
    /\ Finished
    /\ packed.op = "pack_domain_name"
    /\ packed.ok
    /\ packed.start = 0
    /\ result.start = 0

RoundTrips ==
    /\ result.ok
    /\ result.name = packed.name
    /\ result.end = Len(buffer)
    /\ pos = Len(buffer)

NoEmptyLabel(d) == \A i \in 1..Len(Split(d)) : Split(d)[i] # <<>>

\* C1 as stated: every name with labels of at most 63 bytes, packed into an
\* empty buffer and unpacked from offset 0, comes back as it was, and the
\* cursor ends at the end of the encoded name.
C1_RoundTripAnyName == DecodedPacked => RoundTrips

\* C1 as amended: the same for every name with labels of 1 to 63 bytes (no
\* empty label: not the empty name, no leading, trailing or doubled dot).
C1_RoundTripNoEmptyLabel ==
    (DecodedPacked /\ NoEmptyLabel(packed.name)) => RoundTrips

C1_Witness ==
    /\ DecodedPacked
    /\ NoEmptyLabel(packed.name)
    /\ Len(Split(packed.name)) >= 2
    /\ result.ok

\* C2: once the loop of unpack_domain_name starts an iteration at a position
\* it already started one at (the pointers form a cycle), the call never
\* returns, neither a name nor an error: it is in its loop, and can go on.
C2_CycleNeverReturns ==
    revisited => (pc = "loop" /\ result = NoResult /\ ENABLED UnpackStep)

C2_Witness ==
    /\ revisited
    /\ Len(heads) >= 2
    /\ Len(parts) >= 2

\* The length byte at position h of the buffer (h < Len(buffer))
ByteAt(h) == buffer[h + 1]

\* C4: unpack_domain_name reads no byte outside the buffer, and a call ends
\* in an error, never in a name, when its last iteration starts at or past
\* the end of the buffer (as after a pointer to an offset at or beyond the
\* length), at a pointer whose second byte is missing, or at a label longer
\* than the bytes that remain; a name is returned only at a zero byte inside
\* the buffer.
C4_NoReadOutside ==
    /\ maxread <= Len(buffer)
    /\ Finished =>
         LET h == iter_pos
             n == Len(buffer)
         IN  /\ h >= n => ~result.ok
             /\ (h < n /\ IsPointer(ByteAt(h))) => (~result.ok /\ h + 2 > n)
             /\ (h < n /\ ~IsPointer(ByteAt(h)) /\ ByteAt(h) # 0)
                    => (~result.ok /\ h + 1 + ByteAt(h) > n)
             /\ result.ok => (h < n /\ ByteAt(h) = 0)

\* A call that followed a pointer to an offset at or beyond the end
C4_Witness ==
    /\ Finished
    /\ ~result.ok
    /\ jumped
    /\ iter_pos >= Len(buffer)
    /\ Len(heads) >= 2

\* C5: where a 2-byte pointer to offset K stands in a buffer and the call
\* started at K returned a name, the call started at the pointer returns the
\* same name and leaves the cursor 2 bytes past the pointer's start.
C5_PointerSameName ==
    (Finished /\ prev.op = "unpack_domain_name" /\ prev.ok) =>
        /\ result.ok
        /\ result.name = prev.name
        /\ result.end = result.start + 2
        /\ pos = result.start + 2

C5_Witness ==
    /\ Finished
    /\ prev.op = "unpack_domain_name"
    /\ prev.ok
    /\ Len(prev.name) > 0
    /\ result.ok
    /\ result.start > prev.start

\* The positions among hs a pointer stands at, in order
RECURSIVE PointerHeads(_)
PointerHeads(hs) ==
    IF hs = <<>> THEN <<>>
    ELSE IF Head(hs) < Len(buffer) /\ IsPointer(ByteAt(Head(hs)))
         THEN <<Head(hs)>> \o PointerHeads(Tail(hs))
         ELSE PointerHeads(Tail(hs))

\* The labels that stand at the positions hs, in order, as text
RECURSIVE LabelsAt(_)
LabelsAt(hs) ==
    IF hs = <<>> THEN <<>>
    ELSE LET h == Head(hs)
         IN  IF h < Len(buffer) /\ ~IsPointer(ByteAt(h)) /\ ByteAt(h) # 0
             THEN <<Utf8Lossy(SubSeq(buffer, h + 2, h + 1 + ByteAt(h)))>>
                      \o LabelsAt(Tail(hs))
             ELSE LabelsAt(Tail(hs))

\* C6: a returned name is the dot-joined labels the call met, in the order it
\* met them: those before the first pointer, then those at each successive
\* pointer's target.
C6_ChainedExpansion ==
    (Finished /\ result.ok) => result.name = Join(LabelsAt(heads))

\* Labels, a pointer, a label and a further pointer at its target, then a label
C6_Witness ==
    /\ Finished
    /\ result.ok
    /\ Len(PointerHeads(heads)) >= 2
    /\ ~IsPointer(ByteAt(heads[1]))
    /\ Len(parts) >= 3

\* C7: a call that returns a name after following a pointer leaves the cursor
\* at the first pointer's offset + 2, whatever pointers follow; a call that
\* followed none leaves it just past the terminating zero byte.
C7_CursorAfterFirstPointer ==
    (Finished /\ result.ok) =>
        /\ pos = result.end
        /\ IF PointerHeads(heads) # <<>>
           THEN result.end = PointerHeads(heads)[1] + 2
           ELSE result.end = heads[Len(heads)] + 1

C7_Witness ==
    /\ Finished
    /\ result.ok
    /\ Len(PointerHeads(heads)) >= 2
    /\ PointerHeads(heads)[2] + 2 # PointerHeads(heads)[1] + 2

\* C8: unpack_domain_name returns an error when it meets a length byte in
\* 64..191 (greater than 63 and not a pointer).
C8_LongLabelRejected ==
    (Finished /\ \E i \in 1..Len(heads) :
                     heads[i] < Len(buffer) /\ ByteAt(heads[i]) \in 64..191)
        => ~result.ok

(***************************************************************************)
(* Properties of the header codec                                          *)
(***************************************************************************)
HiByte(v) == v \div 256
LoByte(v) == v % 256

\* C9: DnsHeader::pack appends exactly 12 bytes, the six fields in the order
\* id, flags, question, answer, authority, additional count, each high byte
\* first; DnsHeader::from_bytes at those bytes returns the six fields as they
\* were and advances the cursor by 12.
C9_HeaderRoundTrip ==
    /\ packed.op = "DnsHeader::pack" =>
         /\ Len(buffer) = packed.start + 12
         /\ packed.end = packed.start + 12
         /\ SubSeq(buffer, packed.start + 1, Len(buffer)) =
                << HiByte(header.id), LoByte(header.id),
                   HiByte(header.flags), LoByte(header.flags),
                   HiByte(header.question_count), LoByte(header.question_count),
                   HiByte(header.answer_count), LoByte(header.answer_count),
                   HiByte(header.authority_count), LoByte(header.authority_count),
                   HiByte(header.additional_count), LoByte(header.additional_count) >>
    /\ (packed.op = "DnsHeader::pack" /\ hres.op = "DnsHeader::from_bytes"
          /\ hres.len = packed.end /\ hres.start = packed.start) =>
         /\ hres.ok
         /\ hres.header = header
         /\ hres.end = hres.start + 12
         /\ pos = hres.start + 12

C9_Witness ==
    /\ packed.op = "DnsHeader::pack"
    /\ packed.start = 1
    /\ hres.ok
    /\ hres.start = 1
    /\ header.id = 4660
    /\ header.answer_count = 515
    /\ header.authority_count = 0

\* C10: get_response_code is a function of the low 4 bits of flags alone:
\* 0 NoError, 1 FormatError, 2 ServerFailure, 3 NameError, 4 NotImplemented,
\* 5 Refused, 6..15 ServerFailure; 0x8003 gives NameError, 0x8182 ServerFailure.
C10_ResponseCode ==
    rcode # "none" =>
        LET low == header.flags % 16
        IN  /\ low = 0 => rcode = "NoError"
            /\ low = 1 => rcode = "FormatError"
            /\ low = 2 => rcode = "ServerFailure"
            /\ low = 3 => rcode = "NameError"
            /\ low = 4 => rcode = "NotImplemented"
            /\ low = 5 => rcode = "Refused"
            /\ low \in 6..15 => rcode = "ServerFailure"
            /\ header.flags = 32771 => rcode = "NameError"
            /\ header.flags = 33154 => rcode = "ServerFailure"

C10_Witness ==
    /\ rcode = "ServerFailure"
    /\ header.flags = 33154

(***************************************************************************)
(* Properties of DnsMessage::from_bytes                                    *)
(***************************************************************************)
\* C3: DnsMessage::from_bytes does not loop: whenever the compression
\* pointers lead the decoding of a name back to an offset it has been at,
\* from_bytes has returned an error.
C3_LoopIsAnError == revisited => mpc = "err"

\* from_bytes has returned Ok
Decoded == mpc = "ok"

\* The buffer is a well-formed message followed by the bytes t
EndsWith(t) ==
    /\ Len(buffer) >= Len(t)
    /\ SubSeq(buffer, Len(buffer) - Len(t) + 1, Len(buffer)) = t
    /\ SubSeq(buffer, 1, Len(buffer) - Len(t)) \in WellFormedMessages

\* The sections have the lengths the header counts give
LengthsAreCounts ==
    /\ Len(msg.questions) = msg.header.question_count
    /\ Len(msg.answers) = msg.header.answer_count
    /\ Len(msg.authorities) = msg.header.authority_count
    /\ Len(msg.additionals) = msg.header.additional_count

ShortReadsFail ==
    /\ (mpc # "none" /\ Len(buffer) < 12) => mpc = "err"
    /\ mpc = "err" => msg = NoMessage
    /\ buffer \in MsgTruncated => ~Decoded

\* The next step of the decoder needs a byte that is not in the buffer: the
\* header, a name, the type and class of a question, the ten fixed bytes of a
\* record, the bytes the parser of its type reads, or a character-string
NeedsByteBeyond ==
    LET t == buffer[pos + 1] * 256 + buffer[pos + 2]
        n == buffer[pos + 9] * 256 + buffer[pos + 10]
    IN  \/ mpc = "none" /\ Len(buffer) < 12
        \/ mpc \in {"qname", "rname", "rdname"} /\ pc = "done" /\ ~result.ok
        \/ /\ mpc = "qname" /\ pc = "done" /\ result.ok
           /\ \/ pos + 2 > Len(buffer)
              \/ t \in {1, 28, 5, 15, 16} /\ pos + 4 > Len(buffer)
        \/ /\ mpc = "rname" /\ pc = "done" /\ result.ok
           /\ \/ pos + 10 > Len(buffer)
              \/ t = 1 /\ pos + 14 > Len(buffer)
              \/ t = 28 /\ pos + 26 > Len(buffer)
              \/ t = 15 /\ pos + 12 > Len(buffer)
              \/ t \notin {1, 28, 5, 15, 16} /\ pos + 10 + n > Len(buffer)
        \/ /\ mpc = "txt"
           /\ pos < rec.data_end_pos
           /\ \/ pos + 1 > Len(buffer)
              \/ pos + 1 + buffer[pos + 1] > Len(buffer)

U16AtCursor == buffer[pos + 1] * 256 + buffer[pos + 2]

KnownTypeCodes == {1, 28, 5, 15, 16}

\* The name of the question has been decoded and two more bytes are there
QuestionTypeNext ==
    /\ mpc = "qname"
    /\ pc = "done"
    /\ result.ok
    /\ pos + 2 <= Len(buffer)

\* C13: when the 16-bit type code behind the name of a question is not one of
\* 1, 28, 5, 15, 16, DnsQuestion::from_bytes fails and with it
\* DnsMessage::from_bytes: an error and no message, no question with a
\* fallback type; the cursor stays right behind the type code and nothing
\* behind it has been read: the class is not read.
C13_UnknownQuestionType ==
    [][(QuestionTypeNext /\ U16AtCursor \notin KnownTypeCodes) =>
          /\ mpc' = "err"
          /\ msg' = NoMessage
          /\ pos' = pos + 2
          /\ maxread' = pos + 2]_vars

C13_Witness ==
    /\ mpc = "err"
    /\ result.ok
    /\ result.name = <<97>>
    /\ pos = result.end + 2
    /\ pos + 2 = Len(buffer)
    /\ maxread = pos
    /\ buffer[pos - 1] = 1
    /\ buffer[pos] = 1

(***************************************************************************)
(* Properties of ResourceRecord::from_bytes                                *)
(***************************************************************************)
\* The owner name of a record has been decoded and the ten bytes of TYPE,
\* CLASS, TTL and RDLENGTH are there
RecordFieldsNext ==
    /\ AfterOwner
    /\ result.ok
    /\ pos + 10 <= Len(buffer)

\* TYPE and RDLENGTH as the bytes behind the owner name give them
TypeAtCursor == buffer[pos + 1] * 256 + buffer[pos + 2]

RdLengthAtCursor == buffer[pos + 9] * 256 + buffer[pos + 10]

\* The n bytes of RDATA
RDataAtCursor(n) == SubSeq(buffer, pos + 11, pos + 10 + n)

\* The records of a message, in the order they were pushed
Records(m) == m.answers \o m.authorities \o m.additionals

\* The step ended a ResourceRecord::from_bytes with Ok and pushed the record
RecordPushed ==
    /\ mpc' = "items"
    /\ Len(Records(msg')) = Len(Records(msg)) + 1

LastRecord(m) == Records(m)[Len(Records(m))]

\* C14: a record whose type code is not one of 1, 28, 5, 15, 16 and whose
\* RDLENGTH = N bytes of RDATA are there decodes without failure into
\* RData::Other with the type code as read and exactly those N bytes, and its
\* rtype is QueryType::A; in every record decoded the RDATA variant is that
\* of rtype unless it is RData::Other.
C14_UnknownRecordType ==
    /\ [][(/\ RecordFieldsNext
           /\ TypeAtCursor \notin KnownTypeCodes
           /\ pos + 10 + RdLengthAtCursor <= Len(buffer)) =>
              /\ RecordPushed
              /\ LastRecord(msg').rtype = "A"
              /\ LastRecord(msg').data.kind = "Other"
              /\ LastRecord(msg').data.rtype = TypeAtCursor
              /\ LastRecord(msg').data.bytes = RDataAtCursor(RdLengthAtCursor)]_vars
    /\ [](\A i \in 1..Len(Records(msg)) :
            \/ Records(msg)[i].data.kind = Records(msg)[i].rtype
            \/ /\ Records(msg)[i].data.kind = "Other"
               /\ Records(msg)[i].rtype = "A"
               /\ Records(msg)[i].data.rtype \notin KnownTypeCodes)

C14_Witness ==
    /\ Decoded
    /\ Len(msg.answers) = 1
    /\ msg.answers[1].rtype = "A"
    /\ msg.answers[1].data.kind = "Other"
    /\ msg.answers[1].data.rtype = 257
    /\ msg.answers[1].data.bytes = <<>>
    /\ Len(msg.additionals) = 1

\* C15: a successful ResourceRecord::from_bytes leaves the cursor at (the
\* position right behind the RDLENGTH field) + RDLENGTH, whatever the type:
\* for the arms that end in one step, and for CNAME, MX and TXT, whose end
\* offset is computed before the name or the strings are read and does not
\* change while they are, however far those reads go.
C15_CursorAtRDataEnd ==
    [][/\ (RecordFieldsNext /\ RecordPushed) =>
              pos' = pos + 10 + RdLengthAtCursor
       /\ (RecordFieldsNext /\ mpc' \in {"rdname", "txt"}) =>
              rec'.data_end_pos = pos + 10 + RdLengthAtCursor
       /\ (mpc \in {"rdname", "txt"} /\ mpc' = mpc) =>
              rec'.data_end_pos = rec.data_end_pos
       /\ (mpc \in {"rdname", "txt"} /\ RecordPushed) =>
              pos' = rec.data_end_pos]_vars

\* A TXT record of RDLENGTH 2 whose string ends one byte behind the RDATA
C15_Witness ==
    /\ mpc = "items"
    /\ Len(msg.answers) = 1
    /\ msg.answers[1].data.kind = "TXT"
    /\ msg.answers[1].data.bytes = <<97, 98>>
    /\ rec.data_len = 2
    /\ pos = rec.data_end_pos
    /\ maxread = pos + 1

\* CLASS and TTL as the bytes behind the owner name give them, the TTL as
\* its high and low 16 bits
ClassAtCursor == buffer[pos + 3] * 256 + buffer[pos + 4]

TtlAtCursor ==
    <<buffer[pos + 5] * 256 + buffer[pos + 6], buffer[pos + 7] * 256 + buffer[pos + 8]>>

\* The record pushed has the owner name just decoded and the class and TTL
\* at their places behind TYPE
PushedWithFields(rtype) ==
    /\ RecordPushed
    /\ LastRecord(msg').name = result.name
    /\ LastRecord(msg').rtype = rtype
    /\ LastRecord(msg').rclass = ClassAtCursor
    /\ LastRecord(msg').ttl = TtlAtCursor
    /\ LastRecord(msg').data.kind = rtype

\* The decoding of the name in the RDATA starts at p, the fields are kept
NameInRData(p) ==
    /\ mpc' = "rdname"
    /\ pc' = "loop"
    /\ pos' = p
    /\ initial_pos' = p
    /\ rec'.name = result.name
    /\ rec'.rclass = ClassAtCursor
    /\ rec'.ttl = TtlAtCursor

\* C16: ResourceRecord::from_bytes reads NAME, TYPE, CLASS, TTL (32 bits, high
\* byte first), RDLENGTH and takes the arm of the type code: 1 gives RData::A
\* of the first 4 RDATA bytes, 28 RData::AAAA of the first 16, 5 RData::CNAME
\* of the name decoded at the start of the RDATA, 15 RData::MX of the 16-bit
\* preference (high byte first) and the name decoded behind it; the record
\* has the owner name, the class and the TTL.
C16_TypeDispatch ==
    [][/\ (RecordFieldsNext /\ TypeAtCursor = 1 /\ pos + 14 <= Len(buffer)) =>
              /\ PushedWithFields("A")
              /\ LastRecord(msg').data.bytes = RDataAtCursor(4)
       /\ (RecordFieldsNext /\ TypeAtCursor = 28 /\ pos + 26 <= Len(buffer)) =>
              /\ PushedWithFields("AAAA")
              /\ LastRecord(msg').data.bytes = RDataAtCursor(16)
       /\ (RecordFieldsNext /\ TypeAtCursor = 5) => NameInRData(pos + 10)
       /\ (RecordFieldsNext /\ TypeAtCursor = 15 /\ pos + 12 <= Len(buffer)) =>
              /\ NameInRData(pos + 12)
              /\ rec'.preference = buffer[pos + 11] * 256 + buffer[pos + 12]
       /\ (mpc = "rdname" /\ mpc' = "rdname") => rec' = rec
       /\ (mpc = "rdname" /\ pc = "done" /\ result.ok) =>
              /\ RecordPushed
              /\ result.start = initial_pos
              /\ LastRecord(msg').name = rec.name
              /\ LastRecord(msg').rclass = rec.rclass
              /\ LastRecord(msg').ttl = rec.ttl
              /\ LastRecord(msg').data.name = result.name
              /\ rec.rtype_val = 5 =>
                     /\ LastRecord(msg').rtype = "CNAME"
                     /\ LastRecord(msg').data.kind = "CNAME"
              /\ rec.rtype_val = 15 =>
                     /\ LastRecord(msg').rtype = "MX"
                     /\ LastRecord(msg').data.kind = "MX"
                     /\ LastRecord(msg').data.preference = rec.preference]_vars

\* MX, preference 10, "b" and a pointer to the owner name "a"
C16_Witness ==
    /\ Decoded
    /\ Len(msg.answers) = 1
    /\ msg.answers[1].name = <<97>>
    /\ msg.answers[1].rtype = "MX"
    /\ msg.answers[1].rclass = 3
    /\ msg.answers[1].ttl = <<258, 772>>
    /\ msg.answers[1].data.kind = "MX"
    /\ msg.answers[1].data.preference = 10
    /\ msg.answers[1].data.name = <<98, Dot, 97>>

\* The TXT arm is inside its loop
InTxt == mpc = "txt"

\* The character-string at the cursor is there in full
StringAtCursor ==
    /\ pos + 1 <= Len(buffer)
    /\ pos + 1 + buffer[pos + 1] <= Len(buffer)

IsAscii(bytes) == \A i \in 1..Len(bytes) : bytes[i] < 128

\* C17: the TXT arm starts at the RDATA with no text; while the cursor is
\* before the RDATA end offset it reads one length byte and that many bytes
\* and appends them to the text; once the cursor has reached or passed the
\* end offset the record is returned with the text collected (the same bytes
\* when they are ASCII), whatever its bytes are: RDLENGTH 0 gives the empty
\* text, bytes that are no UTF-8 give no failure.
C17_TxtConcatenation ==
    [][/\ (RecordFieldsNext /\ TypeAtCursor = 16) =>
              /\ InTxt'
              /\ pos' = pos + 10
              /\ rec'.text_data = <<>>
              /\ rec'.data_end_pos = pos + 10 + RdLengthAtCursor
       /\ (InTxt /\ pos < rec.data_end_pos /\ StringAtCursor) =>
              /\ InTxt'
              /\ pos' = pos + 1 + buffer[pos + 1]
              /\ rec'.text_data =
                     rec.text_data \o SubSeq(buffer, pos + 2, pos + 1 + buffer[pos + 1])
       /\ (InTxt /\ pos >= rec.data_end_pos) =>
              /\ RecordPushed
              /\ LastRecord(msg').data.kind = "TXT"
              /\ IsAscii(rec.text_data) => LastRecord(msg').data.bytes = rec.text_data
              /\ rec.data_len = 0 => LastRecord(msg').data.bytes = <<>>]_vars

C17_Witness ==
    /\ Decoded
    /\ Len(msg.answers) = 1
    /\ msg.answers[1].rtype = "TXT"
    /\ msg.answers[1].data.kind = "TXT"
    /\ msg.answers[1].data.bytes = <<97, 98, 99, 100>>

(***************************************************************************)
(* Properties of pack_domain_name                                          *)
(***************************************************************************)
\* The last call was pack_domain_name
Packed == packed.op = "pack_domain_name"

\* What the call appended to the buffer
Appended == SubSeq(buffer, packed.start + 1, Len(buffer))

\* A label starts at index i of d: at the start or right behind a dot
LabelStartsAt(d, i) == i = 1 \/ d[i - 1] = Dot

\* The number of bytes from index i of d up to the next dot or the end
RECURSIVE LabelLenFrom(_, _)
LabelLenFrom(d, i) ==
    IF i > Len(d) \/ d[i] = Dot THEN 0 ELSE 1 + LabelLenFrom(d, i + 1)

\* The indices of d where a label of more than 63 bytes starts
LongLabelStarts(d) ==
    {i \in 1..Len(d) : LabelStartsAt(d, i) /\ LabelLenFrom(d, i) >= MaxLabelLen + 1}

\* C18: pack_domain_name returns Ok exactly for the names without a label of
\* 64 bytes or more, so a label of 63 bytes is packed; when it fails, what it
\* has appended is the labels before the first over-long one, each behind its
\* length (as many bytes as the name has before that label) and nothing else:
\* none of the over-long label, whole or truncated, and no terminating zero.
C18_LabelLimit ==
    Packed =>
        /\ packed.ok <=> LongLabelStarts(packed.name) = {}
        /\ ~packed.ok =>
              LET first == CHOOSE i \in LongLabelStarts(packed.name) :
                               \A j \in LongLabelStarts(packed.name) : i <= j
              IN  /\ Len(Appended) = first - 1
                  /\ packed.end = packed.start + first - 1
                  /\ first > 1 => Appended[1] = LabelLenFrom(packed.name, 1)
                  /\ \A k \in 1..(first - 2) :
                        Appended[k + 1] = IF packed.name[k] = Dot
                                          THEN LabelLenFrom(packed.name, k + 1)
                                          ELSE packed.name[k]

C18_Witness ==
    /\ Packed
    /\ ~packed.ok
    /\ packed.name = <<97, Dot>> \o Rep(97, MaxLabelLen + 1)
    /\ packed.start = 1
    /\ Appended = <<1, 97>>

\* C19: on success pack_domain_name appends as many bytes as the name has
\* plus two: the length of the first label; then, for every byte of the
\* name, the byte itself, or in place of a dot the length of the label
\* behind it; then one zero byte. "www.google.com" gives 3 www 6 google 3 com 0.
C19_PackedLayout ==
    (Packed /\ packed.ok) =>
        LET d == packed.name
        IN  /\ Len(Appended) = Len(d) + 2
            /\ packed.end = packed.start + Len(d) + 2
            /\ Appended[1] = LabelLenFrom(d, 1)
            /\ \A k \in 1..Len(d) :
                  Appended[k + 1] = IF d[k] = Dot THEN LabelLenFrom(d, k + 1) ELSE d[k]
            /\ Appended[Len(d) + 2] = 0
            /\ d = WwwGoogleComName => Appended = WwwGoogleCom

C19_Witness ==
    /\ Packed
    /\ packed.ok
    /\ packed.name = WwwGoogleComName
    /\ packed.start = 1
    /\ Len(buffer) = 17

(***************************************************************************)
(* Properties of resolve                                                   *)
(***************************************************************************)
\* resolve has returned after its response decoded
ResolvedDecoded == resolved.op = "resolve" /\ Decoded

\* The low 4 bits of the flags of the response: of its fourth byte
RCodeBits == buffer[4] % 16

\* C20: for a response that decodes, resolve returns Ok(message), with the
\* message decoded, exactly when the low 4 bits of the flags are 0 (NoError);
\* for every other value it returns Err(ServerReturnedError(code)) with the
\* response code of the header (1 FormatError, 2 ServerFailure, 3 NameError,
\* 4 NotImplemented, 5 Refused, 6..15 ServerFailure) and no message.
C20_ServerErrorIsNotOk ==
    ResolvedDecoded =>
        /\ resolved.ok <=> RCodeBits = 0
        /\ resolved.ok => (resolved.message = msg /\ resolved.error = "none")
        /\ RCodeBits # 0 =>
              /\ resolved.error = "ServerReturnedError"
              /\ resolved.message = NoMessage
              /\ resolved.code = rcode
              /\ RCodeBits = 1 => resolved.code = "FormatError"
              /\ RCodeBits = 2 => resolved.code = "ServerFailure"
              /\ RCodeBits = 3 => resolved.code = "NameError"
              /\ RCodeBits = 4 => resolved.code = "NotImplemented"
              /\ RCodeBits = 5 => resolved.code = "Refused"
              /\ RCodeBits \in 6..15 => resolved.code = "ServerFailure"

C20_Witness ==
    /\ ResolvedDecoded
    /\ ~resolved.ok
    /\ resolved.error = "ServerReturnedError"
    /\ resolved.code = "NameError"
    /\ Len(msg.questions) = 1
    /\ Len(msg.answers) = 1

(***************************************************************************)
(* Properties of the order of DnsMessage::from_bytes                       *)
(***************************************************************************)
\* No section has more items than the header counts, and none has an item
\* before the sections ahead of it are full
SectionsInOrder ==
    LET h == msg.header
    IN  /\ Len(msg.questions) <= h.question_count
        /\ Len(msg.answers) <= h.answer_count
        /\ Len(msg.authorities) <= h.authority_count
        /\ Len(msg.additionals) <= h.additional_count
        /\ msg.answers # <<>> => Len(msg.questions) = h.question_count
        /\ msg.authorities # <<>> => Len(msg.answers) = h.answer_count
        /\ msg.additionals # <<>> => Len(msg.authorities) = h.authority_count

\* The lengths of the four lists
ItemCounts(m) ==
    <<Len(m.questions), Len(m.answers), Len(m.authorities), Len(m.additionals)>>

\* The step pushed one item onto the list of section k and left the others
PushedOnto(k) ==
    /\ \A i \in 1..4 :
          ItemCounts(msg')[i] = ItemCounts(msg)[i] + (IF i = k THEN 1 ELSE 0)
    /\ k # 1 => msg'.questions = msg.questions
    /\ k # 2 => msg'.answers = msg.answers
    /\ k # 3 => msg'.authorities = msg.authorities
    /\ k # 4 => msg'.additionals = msg.additionals
    /\ msg'.header = msg.header

\* The index of the section the decoder is filling
SectionIndex ==
    CASE msg.header.question_count > Len(msg.questions) -> 1
      [] OTHER -> IF msg.header.answer_count > Len(msg.answers) THEN 2
                  ELSE IF msg.header.authority_count > Len(msg.authorities) THEN 3
                  ELSE 4

\* The header has been decoded: the cursor is behind it and the lists are empty
HeaderStep ==
    \/ mpc' = "err"
    \/ mpc' = "items" /\ pos' = 12 /\ ItemCounts(msg') = <<0, 0, 0, 0>>

\* An item starts where the cursor is, a question if and only if the
\* questions are not full
ItemStartStep ==
    /\ pos' = pos
    /\ initial_pos' = pos
    /\ msg' = msg
    /\ (mpc' = "qname") <=> (SectionIndex = 1)

\* An item has been pushed onto the section being filled; a record leaves the
\* cursor at its RDATA end offset
ItemEndStep ==
    /\ PushedOnto(SectionIndex)
    /\ (SectionIndex = 1) \/ (pos' = rec'.data_end_pos)

\* C21: DnsMessage::from_bytes decodes the header first (12 bytes, the lists
\* empty), then question_count questions, answer_count answers,
\* authority_count authority records and additional_count additional records
\* in that order over one cursor: every item starts where the one before
\* left the cursor (a record leaves it at its RDATA end offset), every item
\* decoded is pushed onto the first section that is not full, and the first
\* failure ends the decode with no message: nothing is decoded behind it.
C21_SectionsInOrder ==
    /\ [](mpc \notin {"none", "err"} =>
            (SectionsInOrder /\ msg.header = HeaderFromBytes(buffer, 0).header))
    /\ [](mpc = "err" => (msg = NoMessage /\ pc = "idle"))
    /\ [][/\ (mpc = "none") => HeaderStep
          /\ (mpc = "items" /\ mpc' \in {"qname", "rname"}) => ItemStartStep
          /\ (mpc # "none" /\ mpc' = "items") => ItemEndStep
          /\ (mpc = "err") => (mpc' = "err")
          /\ (mpc' = "ok") => (LengthsAreCounts /\ msg' = msg /\ pos' = pos)]_vars

\* The message with a question and a record in each section has been decoded:
\* the question ends at 19 and the records at 35, 50 and 66
C21_Witness ==
    /\ mpc = "ok"
    /\ ItemCounts(msg) = <<1, 1, 1, 1>>
    /\ msg.answers[1].data.bytes = <<10, 0, 0, 1>>
    /\ msg.authorities[1].data.bytes = <<10, 0, 0, 2>>
    /\ msg.additionals[1].data.bytes = <<10, 0, 0, 3>>
    /\ pos = 66
    /\ Len(buffer) = 66

(***************************************************************************)
(* Properties of DnsQuestion::pack and DnsMessage::pack                    *)
(***************************************************************************)
QuestionPacked == packed.op = "DnsQuestion::pack" /\ packed.ok

\* DnsQuestion::from_bytes has returned from the offset the question was
\* packed at
QuestionDecoded ==
    /\ QuestionPacked
    /\ result.op = "DnsQuestion::from_bytes"
    /\ result.start = packed.start

\* The bytes a pack appended
PackedBytes == SubSeq(buffer, packed.start + 1, packed.end)

\* C22: DnsQuestion::pack appends the encoded name, then the code of the type
\* as two bytes, high byte first, then the class the same way; and for every
\* question whose name has no empty label and no label over 63 bytes,
\* DnsQuestion::from_bytes at the start of the packed bytes returns the same
\* name, qtype and qclass with the cursor at the end of the packed bytes.
C22_QuestionRoundTrip ==
    /\ QuestionPacked =>
          LET n == Len(PackDomainName(<<>>, packed.name).buffer)
              code == QueryTypeCode(packed.question.qtype)
              class == packed.question.qclass
          IN  /\ packed.end = Len(buffer)
              /\ Len(PackedBytes) = n + 4
              /\ SubSeq(PackedBytes, 1, n) = PackDomainName(<<>>, packed.name).buffer
              /\ SubSeq(PackedBytes, n + 1, n + 4) =
                    <<code \div 256, code % 256, class \div 256, class % 256>>
    /\ (QuestionDecoded /\ NoEmptyLabel(packed.name)) =>
          /\ result.ok
          /\ result.question = packed.question
          /\ result.end = packed.end
          /\ pos = packed.end

\* "www.google.com" MX of class 515, packed behind one byte, has come back
C22_Witness ==
    /\ QuestionDecoded
    /\ result.ok
    /\ packed.start = 1
    /\ packed.name = WwwGoogleComName
    /\ result.question = [name |-> WwwGoogleComName, qtype |-> "MX", qclass |-> 515]
    /\ pos = 21

MessagePacked == packed.op = "DnsMessage::pack" /\ packed.ok

\* The questions qs, each packed on its own into an empty buffer, in a row
RECURSIVE QuestionBytes(_)
QuestionBytes(qs) ==
    IF qs = <<>> THEN <<>>
    ELSE QuestionPack(Head(qs), <<>>).buffer \o QuestionBytes(Tail(qs))

\* C23: DnsMessage::pack appends the 12 bytes of the header, with the four
\* counts as the header stores them whatever the lengths of the lists are,
\* then the questions in the order of the list, and nothing else: the
\* answers, authorities and additionals give no byte.
C23_MessagePackLayout ==
    MessagePacked =>
        LET m == packed.message
            h == m.header
        IN  /\ packed.end = Len(buffer)
            /\ SubSeq(PackedBytes, 1, 12) =
                  << h.id \div 256, h.id % 256, h.flags \div 256, h.flags % 256,
                     h.question_count \div 256, h.question_count % 256,
                     h.answer_count \div 256, h.answer_count % 256,
                     h.authority_count \div 256, h.authority_count % 256,
                     h.additional_count \div 256, h.additional_count % 256 >>
            /\ SubSeq(PackedBytes, 13, Len(PackedBytes)) = QuestionBytes(m.questions)

\* Two questions under a header that counts one, and an answer, an authority
\* record and two additional records under a header that counts none
C23_Witness ==
    /\ MessagePacked
    /\ packed.start = 1
    /\ Len(packed.message.questions) = 2
    /\ packed.message.header.question_count = 1
    /\ packed.message.header.answer_count = 0
    /\ Len(packed.message.answers) = 1
    /\ Len(packed.message.authorities) = 1
    /\ Len(packed.message.additionals) = 2
    /\ packed.message.questions[1] # packed.message.questions[2]
    /\ Len(buffer) = 1 + 12 + 7 + 10

\* b starts with a
IsPrefix(a, b) == Len(a) <= Len(b) /\ SubSeq(b, 1, Len(a)) = a

HasLongLabel(d) == \E i \in 1..Len(Split(d)) : Len(Split(d)[i]) > MaxLabelLen

\* The length bytes and labels of d before its first label over 63 bytes
LabelsBefore(d) ==
    LET ls == Split(d)
        k == CHOOSE i \in 1..Len(ls) :
                 /\ Len(ls[i]) > MaxLabelLen
                 /\ \A j \in 1..(i - 1) : Len(ls[j]) <= MaxLabelLen
    IN  Concat([i \in 1..(k - 1) |-> <<Len(ls[i])>> \o ls[i]])

\* The questions of qs before the first one whose name has a label over 63
\* bytes, packed, and the labels of that one before the long label
QuestionsBefore(qs) ==
    LET k == CHOOSE i \in 1..Len(qs) :
                 /\ HasLongLabel(qs[i].name)
                 /\ \A j \in 1..(i - 1) : ~HasLongLabel(qs[j].name)
    IN  QuestionBytes(SubSeq(qs, 1, k - 1)) \o LabelsBefore(qs[k].name)

\* What a pack that failed has appended
LeftByFailedPack(p) ==
    IF p.op = "pack_domain_name" THEN LabelsBefore(p.name)
    ELSE IF p.op = "DnsQuestion::pack" THEN LabelsBefore(p.question.name)
    ELSE HeaderPack(p.message.header, <<>>) \o QuestionsBefore(p.message.questions)

\* C24: every pack (pack_domain_name, DnsHeader::pack, DnsQuestion::pack,
\* DnsMessage::pack) only appends: the buffer as it was stays the start of the
\* buffer; and a pack that fails on a label over 63 bytes takes nothing back:
\* the labels before it, and for DnsMessage::pack the header and the
\* questions before it, stay appended.
C24_PackOnlyAppends ==
    [][/\ IsPrefix(buffer, buffer')
       /\ (packed' # packed /\ ~packed'.ok) =>
             (buffer' = buffer \o LeftByFailedPack(packed'))]_vars

\* DnsMessage::pack has failed on its second question, "a." and a label of 64
\* bytes, behind one byte: the header, the first question and the label "a"
\* are in the buffer
C24_Witness ==
    /\ packed.op = "DnsMessage::pack"
    /\ ~packed.ok
    /\ packed.start = 1
    /\ Len(packed.message.questions) = 2
    /\ packed.message.questions[1].name = <<97>>
    /\ buffer = <<171>> \o HeaderPack(packed.message.header, <<>>)
                    \o <<1, 97, 0, 0, 1, 0, 1>> \o <<1, 97>>

\* The number of zero bytes of b
RECURSIVE Zeros(_)
Zeros(b) == IF b = <<>> THEN 0 ELSE (IF Head(b) = 0 THEN 1 ELSE 0) + Zeros(Tail(b))

\* The places of d where a label of no bytes is: the start of a name that is
\* empty or starts with a dot (place 0), and every dot that a dot or the end
\* of the name follows
EmptyLabelPlaces(d) ==
    {k \in 0..Len(d) :
        /\ k > 0 => d[k] = Dot
        /\ k = Len(d) \/ d[k + 1] = Dot}

\* C25: pack_domain_name does not normalize: for every place of the name
\* where a label of no bytes is (the empty name, a leading dot, a dot behind
\* a dot, a trailing dot) it writes a zero length byte at that place, one
\* zero byte more than the terminator for each; a name that ends in a dot is
\* encoded with two zero bytes at its end.
C25_NoNormalization ==
    (Packed /\ packed.ok) =>
        LET d == packed.name
        IN  /\ \A k \in EmptyLabelPlaces(d) : Appended[k + 1] = 0
            /\ Zeros(Appended) = 1 + Cardinality(EmptyLabelPlaces(d))
            /\ (d # <<>> /\ d[Len(d)] = Dot) =>
                  /\ Appended[Len(Appended) - 1] = 0
                  /\ Appended[Len(Appended)] = 0
            /\ d = <<>> => Appended = <<0, 0>>

\* "a..a" and ".a." have been packed: 1 a 0 1 a 0 and 0 1 a 0 0
C25_Witness ==
    /\ Packed
    /\ packed.ok
    /\ \/ packed.name = <<97, Dot, Dot, 97>> /\ Appended = <<1, 97, 0, 1, 97, 0>>
       \/ packed.name = <<Dot, 97, Dot>> /\ Appended = <<0, 1, 97, 0, 0>>

(***************************************************************************)
(* The test of unpack_domain_name on "www.google.com"                      *)
(***************************************************************************)
\* unpack_domain_name has returned from offset 0 of the 16 bytes
\* 3 www 6 google 3 com 0
SimpleNameDecoded ==
    /\ Finished
    /\ buffer = WwwGoogleCom
    /\ result.start = 0

\* C26: the call returns "www.google.com" and leaves the cursor at position
\* 17, as test_unpack_simple_domain_name asserts.
C26_CursorAt17 ==
    SimpleNameDecoded =>
        /\ result.ok
        /\ result.name = WwwGoogleComName
        /\ pos = 17

\* What unpack_domain_name does on the data of the test: the name is the one
\* asserted, the cursor is at 16, right behind the zero byte, the end of the data
SimpleNameCursorAt16 ==
    SimpleNameDecoded =>
        /\ result.ok
        /\ result.name = WwwGoogleComName
        /\ pos = 16
        /\ pos = Len(buffer)

(***************************************************************************)
(* Termination of the decode loops                                         *)
(***************************************************************************)
\* The loop of unpack_domain_name is running and has met no pointer
InNameLoop == pc = "loop" /\ ~jumped

\* C27: while unpack_domain_name meets no length byte with the top bits 11,
\* every iteration of its loop either ends the call, with a name or with an
\* error and the cursor at the end of the buffer, or moves the cursor forward
\* inside the buffer, by at least one byte for every iteration made: the loop
\* has no more iterations than bytes lie ahead, plus one. Every iteration of
\* the TXT loop of ResourceRecord::from_bytes fails or moves the cursor
\* forward by at least one byte inside the buffer, and the loop is left once
\* the cursor is at or behind the RDATA end offset: that loop ends too.
C27_LoopsEnd ==
    /\ [][(InNameLoop /\ ~jumped') =>
            /\ pc' \in {"loop", "done"}
            /\ pc' = "loop" =>
                  /\ pos < pos'
                  /\ pos' <= Len(buffer)
                  /\ Len(heads') <= pos' - initial_pos
            /\ pc' = "done" =>
                  /\ result'.op = "unpack_domain_name"
                  /\ result'.ok \/ pos' = Len(buffer)]_vars
    /\ [][(mpc = "txt") =>
            /\ mpc' \in {"txt", "err", "items"}
            /\ mpc' = "txt" => (pos + 1 <= pos' /\ pos' <= Len(buffer))
            /\ mpc' = "items" <=> pos >= rec.data_end_pos]_vars

\* Both loops have run to their end in one from_bytes: the name "a" of the
\* question took two iterations, the two strings of the TXT record two
C27_Witness ==
    /\ mpc = "ok"
    /\ ~jumped
    /\ Len(msg.questions) = 1
    /\ msg.questions[1].name = <<97>>
    /\ Len(Records(msg)) = 1
    /\ LastRecord(msg).data.kind = "TXT"
    /\ LastRecord(msg).data.bytes = <<97, 98, 99, 100>>
    /\ rec.text_data = <<97, 98, 99, 100>>

(***************************************************************************)
(* RDLENGTH against the buffer and against the size of the type            *)
(***************************************************************************)
\* The offset RDLENGTH puts the end of the RDATA at, seen from the cursor
\* behind the owner name
RDataEndAtCursor == pos + 10 + RdLengthAtCursor

\* The fixed fields of a record are next and its RDLENGTH runs past the end
\* of the buffer
LengthPastEnd == RecordFieldsNext /\ RDataEndAtCursor > Len(buffer)

C29_LengthNotCompared ==
    /\ [][(RecordFieldsNext /\ TypeAtCursor = 1 /\ pos + 14 <= Len(buffer)) =>
            /\ RecordPushed
            /\ LastRecord(msg').data.kind = "A"
            /\ LastRecord(msg').data.bytes = SubSeq(buffer, pos + 11, pos + 14)
            /\ pos' = RDataEndAtCursor
            /\ maxread' >= pos + 14]_vars
    /\ [][(RecordFieldsNext /\ TypeAtCursor = 28 /\ pos + 26 <= Len(buffer)) =>
            /\ RecordPushed
            /\ LastRecord(msg').data.kind = "AAAA"
            /\ LastRecord(msg').data.bytes = SubSeq(buffer, pos + 11, pos + 26)
            /\ pos' = RDataEndAtCursor
            /\ maxread' >= pos + 26]_vars
    /\ [][(mpc = "items" /\ mpc' = "rname") =>
            (pos' = pos /\ initial_pos' = pos)]_vars

\* An A record of RDLENGTH 0 and the record behind it have been decoded: the
\* address 0.0.1.0 is the owner name, the type and the first byte of the
\* class of the second record, that of the second is 10.0.0.2
C29_Witness ==
    /\ mpc = "ok"
    /\ Len(Records(msg)) = 2
    /\ Records(msg)[1].data.kind = "A"
    /\ Records(msg)[1].data.bytes = <<0, 0, 1, 0>>
    /\ Records(msg)[2].data.bytes = <<10, 0, 0, 2>>
    /\ SubSeq(buffer, 24, 27) = <<0, 0, 1, 0>>
    /\ buffer[22] = 0
    /\ buffer[23] = 0

\* The bytes resolve sends for the name d and the type code t: the header
\* 04 D2 01 00 00 01 00 00 00 00 00 00, the name, the type, the class 00 01
QueryBytes(d, t) ==
    <<4, 210, 1, 0, 0, 1, 0, 0, 0, 0, 0, 0>>
        \o PackDomainName(<<>>, d).buffer \o <<0, t, 0, 1>>

\* The response has the id, the QR bit and the question a response to the
\* query sent has
AnswersQuery ==
    /\ msg.header.id = packed.message.header.id
    /\ msg.header.flags \div 32768 = 1
    /\ msg.questions = packed.message.questions

\* C30: the query resolve sends has the id 1234, the flags 0x0100, the
\* question count 1 and the other counts 0, and one question, of class 1, for
\* the name and type it was called with. What it receives is not compared
\* with the query: whatever id, QR bit and questions a datagram has, it is
\* returned as Ok when it decodes with response code NoError, and reported as
\* InvalidResponse when it does not decode, whatever response code its bytes
\* carry.
C30_NoResponseValidation ==
    /\ Sent =>
          /\ packed.message.header =
                [id |-> 1234, flags |-> 256, question_count |-> 1,
                 answer_count |-> 0, authority_count |-> 0, additional_count |-> 0]
          /\ Len(packed.message.questions) = 1
          /\ packed.message.questions[1].qclass = 1
          /\ packed.message.questions[1].name = packed.name
          /\ packed.bytes =
                QueryBytes(packed.name, QueryTypeCode(packed.message.questions[1].qtype))
    /\ (packed.op = "resolve" /\ ~packed.ok) =>
          (resolved.error = "InvalidResponse" /\ mpc = "none")
    /\ (resolved.op = "resolve" /\ mpc = "ok" /\ RCodeBits = 0) =>
          (resolved.ok /\ resolved.message = msg)
    /\ (resolved.op = "resolve" /\ mpc = "err") =>
          (~resolved.ok /\ resolved.error = "InvalidResponse" /\ resolved.code = "none")

\* resolve has returned, as the answer to its query for "aa" of type MX, a
\* message with the id 0x1234, the QR bit clear and a question for "a" of type A
C30_Witness ==
    /\ resolved.op = "resolve"
    /\ resolved.ok
    /\ packed.name = <<97, 97>>
    /\ packed.bytes = <<4, 210, 1, 0, 0, 1, 0, 0, 0, 0, 0, 0, 2, 97, 97, 0, 0, 15, 0, 1>>
    /\ ~AnswersQuery
    /\ resolved.message.header.id = 4660
    /\ resolved.message.header.flags = 256
    /\ resolved.message.questions = <<[name |-> <<97>>, qtype |-> "A", qclass |-> 1]>>
    /\ Len(resolved.message.answers) = 1
====
